---- MODULE Spec2Model ----
(***************************************************************************)
(* Event gateway: the HTTP and gRPC ingest handlers, the Kafka producer    *)
(* they share, and the bidirectional streaming session.                    *)
(*                                                                         *)
(* The log (the Kafka topic behind sarama.SyncProducer) is a sequence of   *)
(* records in the order SendMessage succeeded.  A handler of the           *)
(* request/response adapters is one action; the streaming handler is a     *)
(* process whose steps are the blocking points of its receive loop.        *)
(***************************************************************************)
EXTENDS Integers, Sequences, FiniteSets, TLC

(***************************************************************************)
(* Bounds of the model.                                                    *)
(***************************************************************************)
MaxUnary == 2      \* single-event requests the clients submit
MaxEvents == 3     \* events and stream messages the clients submit in all
MaxClock == 2      \* largest value of the wall clock
MaxBatchLen == 3   \* longest batch a client submits
MaxReqs == 3       \* requests that call the limiter concurrently
BurstSize == 1     \* cfg.BurstSize: the capacity of the token bucket
RefillPerTick == 1 \* cfg.RequestsPerSecond: tokens the bucket gains per tick of the clock
MaxGate == 2       \* submissions in all that reach the two servers
MaxShared == 1     \* submissions in all when both adapters and a session run together
MaxConv == 2       \* goroutines that convert a request concurrently
MaxHttp == 2       \* HTTP requests whose metrics are followed
MaxInflight == 2   \* requests a shutdown run accepts in all
MaxSendBatch == 3  \* events handed to SendBatchEvents directly, in all
MaxOrdered == 3    \* events a session, a batch and single requests submit side by side
MaxTagged == 2     \* batch elements whose metadata is followed
MaxSessionMsgs == 2 \* messages the clients of two sessions send in all

(***************************************************************************)
(* Values.  Strings: "" is Go's empty string.  Data: "nil" is a nil map    *)
(* (JSON null / absent, or a nil *structpb.Struct).  Identifiers are       *)
(* integers: 0 is the empty string, negative ones are caller-supplied,     *)
(* positive ones come from uuid.New.  Timestamps are integers: 0 is a nil  *)
(* *timestamppb.Timestamp, positive ones are instants.                     *)
(***************************************************************************)
EmptyId == 0
CallerId == -1
NilTime == 0
CallerTime == 1
NilData == "nil"
CallerRequestId == -2   \* an X-Request-ID header / x-request-id metadata value

(***************************************************************************)
(* models.EventRequest, the JSON body of the HTTP endpoints.               *)
(***************************************************************************)
EventRequest(t, s, d) == [type |-> t, source |-> s, data |-> d]

(***************************************************************************)
(* pb.Event as the gRPC handlers read it; isNil: the pointer is nil.       *)
(***************************************************************************)
PbEvent(n, i, t, s, d, ts) ==
    [isNil |-> n, id |-> i, type |-> t, source |-> s, data |-> d, ts |-> ts]

NilPbEvent == PbEvent(TRUE, EmptyId, "", "", NilData, NilTime)

(***************************************************************************)
(* models.Event, the value handed to the producer.                         *)
(***************************************************************************)
Event(i, t, s, d, ts) == [id |-> i, type |-> t, source |-> s, data |-> d, ts |-> ts]

VARIABLES
    log,        \* records of the topic, in the order they were acknowledged
    nextId,     \* uuid.New: the next identifier it returns
    clock,      \* time.Now
    calls,      \* ProduceEvent calls of the latest handler step, in order
    last,       \* the latest exchange of a request/response handler
    submitted,  \* events and stream messages the clients have submitted so far
    pc,         \* where the StreamEvents handler of the session stands
    requestID,  \* the identifier StreamEvents drew for the session
    inbox,      \* messages the client has sent and Recv has not returned yet
    clientClosed, \* the client has half-closed the stream: Recv ends in io.EOF
    ctxCancelled,    \* the context of the stream is done
    got,        \* the messages Recv has returned, in order
    pending,    \* the message the handler is about to Send
    outbox,     \* the messages Send has delivered, in order
    ret,        \* why the handler returned
    tokens,     \* rate.Limiter: the tokens in the bucket
    limLast,    \* rate.Limiter: the time the bucket was last updated
    mu,         \* rate.Limiter: the requests inside its mutex
    callers,    \* the requests that call Allow directly, each with its position
    edge,       \* the latest exchange of a server: middleware or interceptors included
    md,         \* the x-request-id in the metadata of the stream, if the client set one
    conv,       \* the goroutines that convert a request with ToEvent, each with its position
    metrics,    \* the Prometheus collectors of the HTTP middleware
    life,       \* the process: its servers, its producer, the requests in flight
    sessions    \* the streaming sessions that are open side by side, each with its handler

syncVars == <<last, submitted>>
streamVars == <<pc, requestID, inbox, clientClosed, ctxCancelled, got, pending, outbox, ret>>
gateVars == <<tokens, limLast, mu, callers, edge>>
limiterVars == <<tokens, limLast, mu, callers>>
sideVars == <<conv, metrics, life, sessions>>
vars == <<log, nextId, clock, calls, last, submitted,
          pc, requestID, inbox, clientClosed, ctxCancelled, got, pending, outbox, ret,
          tokens, limLast, mu, callers, edge, md, conv, metrics, life, sessions>>

(***************************************************************************)
(* The validator of the HTTP adapter: validator.Struct on an EventRequest  *)
(* reports every field whose `required` tag fails, in field order.  A      *)
(* string is missing when empty, a map when nil.                           *)
(***************************************************************************)
StructViolations(req) ==
    (IF req.type = "" THEN <<"Type">> ELSE <<>>)
    \o (IF req.source = "" THEN <<"Source">> ELSE <<>>)
    \o (IF req.data = NilData THEN <<"Data">> ELSE <<>>)

\* formatValidationErrors: the first violation only
formatValidationErrors(violations) == Head(violations)

\* EventRequest.ToEvent with uuid.New() = id and time.Now() = now
ToEvent(req, id, now) == Event(id, req.type, req.source, req.data, now)

\* validateEvent without its source check
validateEvent_NoSourceCheck(event) ==
    IF event.isNil THEN "event cannot be nil"
    ELSE IF event.type = "" THEN "event type is required"
    ELSE IF event.data = NilData THEN "event data is required"
    ELSE "ok"

(***************************************************************************)
(* The validator of the gRPC adapter: the first failing check decides.     *)
(***************************************************************************)
validateEvent(event) ==
    IF event.isNil THEN "event cannot be nil"
    ELSE IF event.type = "" THEN "event type is required"
    ELSE IF event.source = "" THEN "event source is required"
    ELSE IF event.data = NilData THEN "event data is required"
    ELSE "ok"

\* protoToModel: a nil timestamp becomes time.Now(), nil data an empty map
protoToModel(event, now) ==
    Event(event.id, event.type, event.source,
          IF event.data = NilData THEN "{}" ELSE event.data,
          IF event.ts # NilTime THEN event.ts ELSE now)

\* the defaults without the generated identifier
FillDefaults_KeepsEmptyId(event, id, now) ==
    [event EXCEPT !.ts = IF event.ts = NilTime THEN now ELSE event.ts]

(***************************************************************************)
(* The steps the three gRPC ingest paths share after validation: fill in   *)
(* a missing id and a missing timestamp, then convert.                     *)
(***************************************************************************)
FillDefaults(event, id, now) ==
    [event EXCEPT !.id = IF event.id = EmptyId THEN id ELSE event.id,
                  !.ts = IF event.ts = NilTime THEN now ELSE event.ts]

(***************************************************************************)
(* The topic.  sarama.NewHashPartitioner sends a keyed message to          *)
(* |int32(fnv1a32(key))| mod the number of partitions; the table holds     *)
(* that value for the keys of the model and a topic of two partitions.     *)
(***************************************************************************)
NumPartitions == 2

HashPartition(key) ==
    CASE key = "a" -> 468965076 % NumPartitions
      [] key = "b" -> 418632219 % NumPartitions
      [] OTHER -> 2128831035 % NumPartitions

RECURSIVE CountPartition(_, _)
\* a partition that gives every record the offset 0
CountPartition_AlwaysZero(lg, p) == 0

CountPartition(lg, p) ==
    IF lg = <<>> THEN 0
    ELSE (IF Head(lg).partition = p THEN 1 ELSE 0) + CountPartition(Tail(lg), p)

\* a message keyed by the source of the event
ProducerMessage_KeyedBySource(event, p, o) ==
    [key |-> event.source,
     value |-> event,
     headers |-> [event_id |-> event.id, event_type |-> event.type,
                  source |-> event.source],
     timestamp |-> event.ts,
     partition |-> p,
     offset |-> o]

\* the sarama.ProducerMessage ProduceEvent builds, as the broker stores it
ProducerMessage(event, p, o) ==
    [key |-> event.type,
     value |-> event,
     headers |-> [event_id |-> event.id, event_type |-> event.type,
                  source |-> event.source],
     timestamp |-> event.ts,
     partition |-> p,
     offset |-> o]

\* ProduceEvent without the check of ctx.Done() before the send
ProduceEvent_NoCtxCheck(ctxDone, event, sendOk, lg) ==
    IF ~sendOk
    THEN [err |-> "send_failed", sent |-> TRUE, partition |-> 0, offset |-> 0, log |-> lg]
    ELSE LET p == HashPartition(event.type)
             o == CountPartition(lg, p)
         IN  [err |-> "none", sent |-> TRUE, partition |-> p, offset |-> o,
              log |-> Append(lg, ProducerMessage(event, p, o))]

(***************************************************************************)
(* Producer.ProduceEvent on the log lg.  ctxDone: the caller's context is  *)
(* done when the call starts; sendOk: SendMessage is acknowledged.  The    *)
(* result carries the error, whether SendMessage was called, the placement *)
(* and the log afterwards.                                                 *)
(***************************************************************************)
ProduceEvent(ctxDone, event, sendOk, lg) ==
    IF ctxDone
    THEN [err |-> "canceled", sent |-> FALSE, partition |-> 0, offset |-> 0, log |-> lg]
    ELSE IF ~sendOk
    THEN [err |-> "send_failed", sent |-> TRUE, partition |-> 0, offset |-> 0, log |-> lg]
    ELSE LET p == HashPartition(event.type)
             o == CountPartition(lg, p)
         IN  [err |-> "none", sent |-> TRUE, partition |-> p, offset |-> o,
              log |-> Append(lg, ProducerMessage(event, p, o))]

\* Producer.SendEvent: ProduceEvent under context.Background()
SendEvent(event, sendOk, lg) == ProduceEvent(FALSE, event, sendOk, lg)

\* what a handler remembers of one ProduceEvent call
Call(ctxDone, event, r) ==
    [event |-> event, ctxDone |-> ctxDone, err |-> r.err, sent |-> r.sent]

(***************************************************************************)
(* What a unary handler answers.  code: the HTTP status or the gRPC code;  *)
(* placed: the answer carries a partition and an offset; details: the      *)
(* violations it names.                                                    *)
(***************************************************************************)
Response(code, error, status, eventId, details) ==
    [code |-> code, error |-> error, status |-> status, event_id |-> eventId,
     placed |-> FALSE, partition |-> 0, offset |-> 0, details |-> details]

Placed(resp, r) ==
    [resp EXCEPT !.placed = TRUE, !.partition = r.partition, !.offset = r.offset]

\* the outcome of a handler: its answer, the log afterwards, its ProduceEvent
\* calls, the identifiers it drew from uuid.New, whether validation passed
Outcome(resp, passed, lg, cs, drawn) ==
    [resp |-> resp, passed |-> passed, log |-> lg, calls |-> cs, drawn |-> drawn]

(***************************************************************************)
(* HTTP EventHandler.IngestEvent.  jsonOk: ShouldBindJSON succeeds.        *)
(***************************************************************************)
HttpIngestEvent(jsonOk, req, sendOk, lg, id, now) ==
    IF ~jsonOk
    THEN Outcome(Response("400", "invalid_json", "", EmptyId, <<>>),
                 FALSE, lg, <<>>, 0)
    ELSE IF StructViolations(req) # <<>>
    THEN Outcome(Response("400", "validation_failed", "", EmptyId,
                          <<formatValidationErrors(StructViolations(req))>>),
                 FALSE, lg, <<>>, 0)
    ELSE LET event == ToEvent(req, id, now)
             r == SendEvent(event, sendOk, lg)
         IN  IF r.err # "none"
             THEN Outcome(Response("500", "ingestion_failed", "", event.id, <<>>),
                          TRUE, r.log, <<Call(FALSE, event, r)>>, 1)
             ELSE Outcome(Response("202", "", "accepted", event.id, <<>>),
                          TRUE, r.log, <<Call(FALSE, event, r)>>, 1)

\* a dry run that goes on to send the event it built
HttpValidateEvent_Sends(jsonOk, req, lg, id, now) ==
    LET o == HttpIngestEvent(jsonOk, req, TRUE, lg, id, now)
    IN  Outcome(Response(IF o.resp.code = "202" THEN "200" ELSE o.resp.code,
                         o.resp.error,
                         IF o.resp.code = "202" THEN "valid" ELSE "invalid",
                         o.resp.event_id, o.resp.details),
                o.passed, o.log, o.calls, o.drawn)

(***************************************************************************)
(* HTTP EventHandler.ValidateEvent, the dry run.                           *)
(***************************************************************************)
HttpValidateEvent(jsonOk, req, lg, id, now) ==
    IF ~jsonOk
    THEN Outcome(Response("400", "invalid_json", "invalid", EmptyId, <<>>),
                 FALSE, lg, <<>>, 0)
    ELSE IF StructViolations(req) # <<>>
    THEN Outcome(Response("200", "validation_failed", "invalid", EmptyId,
                          <<formatValidationErrors(StructViolations(req))>>),
                 FALSE, lg, <<>>, 0)
    ELSE Outcome(Response("200", "", "valid", ToEvent(req, id, now).id, <<>>),
                 TRUE, lg, <<>>, 1)

(***************************************************************************)
(* gRPC EventHandler.IngestEvent.  The handler logs req.Event.Type before  *)
(* it validates: with a nil event that read panics, and the recovery       *)
(* interceptor answers Internal.                                           *)
(***************************************************************************)
GrpcIngestEvent(event, ctxDone, sendOk, lg, id, now) ==
    IF event.isNil
    THEN Outcome(Response("Internal", "internal server error", "", EmptyId, <<>>),
                 FALSE, lg, <<>>, 0)
    ELSE IF validateEvent(event) # "ok"
    THEN Outcome(Response("InvalidArgument", validateEvent(event), "", EmptyId, <<>>),
                 FALSE, lg, <<>>, 0)
    ELSE LET filled == FillDefaults(event, id, now)
             model == protoToModel(filled, now)
             r == ProduceEvent(ctxDone, model, sendOk, lg)
             drawn == IF event.id = EmptyId THEN 1 ELSE 0
         IN  IF r.err # "none"
             THEN Outcome(Response("Internal", "failed to process event", "",
                                   EmptyId, <<>>),
                          TRUE, r.log, <<Call(ctxDone, model, r)>>, drawn)
             ELSE Outcome(Placed(Response("OK", "", "ACCEPTED", filled.id, <<>>), r),
                          TRUE, r.log, <<Call(ctxDone, model, r)>>, drawn)

(***************************************************************************)
(* gRPC EventHandler.ValidateEvent, the dry run: validateEvent's verdict   *)
(* under field "event", then the type and source checks again.             *)
(***************************************************************************)
\* a dry run made of the type and source checks only
GrpcValidateEvent_FieldChecksOnly(event, lg) ==
    IF event.isNil
    THEN Outcome(Response("Internal", "internal server error", "", EmptyId, <<>>),
                 FALSE, lg, <<>>, 0)
    ELSE LET errors == (IF event.type = "" THEN <<"type">> ELSE <<>>)
                       \o (IF event.source = "" THEN <<"source">> ELSE <<>>)
         IN  Outcome(Response("OK", "", IF errors = <<>> THEN "valid" ELSE "invalid",
                              EmptyId, errors),
                     errors = <<>>, lg, <<>>, 0)

GrpcValidateEvent(event, lg) ==
    IF event.isNil
    THEN Outcome(Response("Internal", "internal server error", "", EmptyId, <<>>),
                 FALSE, lg, <<>>, 0)
    ELSE LET errors == (IF validateEvent(event) # "ok" THEN <<"event">> ELSE <<>>)
                       \o (IF event.type = "" THEN <<"type">> ELSE <<>>)
                       \o (IF event.source = "" THEN <<"source">> ELSE <<>>)
         IN  Outcome(Response("OK", "", IF errors = <<>> THEN "valid" ELSE "invalid",
                              EmptyId, errors),
                     errors = <<>>, lg, <<>>, 0)

(***************************************************************************)
(* Batches.  A per-element result remembers, in elem, the position of the  *)
(* input element it was built for.                                         *)
(***************************************************************************)
BatchSizeMax == 100

BatchResult(elem, eventId, status, error) ==
    [elem |-> elem, event_id |-> eventId, status |-> status, error |-> error,
     placed |-> FALSE, partition |-> 0, offset |-> 0]

\* hasResults: the answer is a batch result (not an error document)
BatchResponse(code, error, hasResults, okCount, koCount, results) ==
    [code |-> code, error |-> error, hasResults |-> hasResults,
     success |-> okCount, failure |-> koCount, results |-> results]

BatchOutcome(resp, lg, cs, drawn) ==
    [resp |-> resp, log |-> lg, calls |-> cs, drawn |-> drawn]

(***************************************************************************)
(* Producer.SendBatchEvents: SendEvent on each event in order, returning   *)
(* at the first error.  oks[k]: the send of events[k] is acknowledged.     *)
(***************************************************************************)
RECURSIVE SendBatchEvents_GoesOnAfterError(_, _, _)
RECURSIVE SendBatchEvents(_, _, _)
\* a loop that remembers the first error and sends the remaining events
SendBatchEvents_GoesOnAfterError(events, oks, lg) ==
    IF events = <<>>
    THEN [err |-> "none", log |-> lg, calls |-> <<>>]
    ELSE LET r == SendEvent(Head(events), Head(oks), lg)
             c == Call(FALSE, Head(events), r)
             rest == SendBatchEvents_GoesOnAfterError(Tail(events), Tail(oks), r.log)
         IN  [err |-> IF r.err # "none" THEN r.err ELSE rest.err,
              log |-> rest.log, calls |-> <<c>> \o rest.calls]

SendBatchEvents(events, oks, lg) ==
    IF events = <<>>
    THEN [err |-> "none", log |-> lg, calls |-> <<>>]
    ELSE LET r == SendEvent(Head(events), Head(oks), lg)
             c == Call(FALSE, Head(events), r)
         IN  IF r.err # "none"
             THEN [err |-> r.err, log |-> r.log, calls |-> <<c>>]
             ELSE LET rest == SendBatchEvents(Tail(events), Tail(oks), r.log)
                  IN  [err |-> rest.err, log |-> rest.log,
                       calls |-> <<c>> \o rest.calls]

(***************************************************************************)
(* validator.Struct on a BatchEventRequest: Events carries                 *)
(* required,min=1,max=100,dive.  The first failing tag of the slice        *)
(* decides; dive then validates every element as a struct.                 *)
(***************************************************************************)
RECURSIVE DiveViolations(_)
DiveViolations(reqs) ==
    IF reqs = <<>> THEN <<>>
    ELSE StructViolations(Head(reqs)) \o DiveViolations(Tail(reqs))

BatchViolations(reqs) ==
    IF Len(reqs) < 1 THEN <<"Events">>
    ELSE IF Len(reqs) > BatchSizeMax THEN <<"Events">>
    ELSE DiveViolations(reqs)

(***************************************************************************)
(* The element loop of the HTTP IngestBatch.  acc: the results so far, the *)
(* events collected for the producer with the positions they came from,    *)
(* the two counters and the identifiers drawn.                             *)
(***************************************************************************)
RECURSIVE HttpBatchLoop(_, _, _, _, _)
HttpBatchLoop(reqs, i, id, now, acc) ==
    IF i > Len(reqs) THEN acc
    ELSE IF StructViolations(reqs[i]) # <<>>
    THEN HttpBatchLoop(reqs, i + 1, id, now,
            [acc EXCEPT !.failed = @ + 1,
                        !.results = Append(@, BatchResult(i, EmptyId, "failed",
                            formatValidationErrors(StructViolations(reqs[i]))))])
    ELSE LET event == ToEvent(reqs[i], id + acc.drawn, now)
         IN  HttpBatchLoop(reqs, i + 1, id, now,
                [acc EXCEPT !.events = Append(@, event),
                            !.from = Append(@, i),
                            !.results = Append(@, BatchResult(i, event.id, "accepted", "")),
                            !.processed = @ + 1,
                            !.drawn = @ + 1])

(***************************************************************************)
(* HTTP EventHandler.IngestBatch.  oks[i]: a send of element i would be    *)
(* acknowledged.                                                           *)
(***************************************************************************)
HttpIngestBatch(jsonOk, reqs, oks, lg, id, now) ==
    IF ~jsonOk
    THEN BatchOutcome(BatchResponse("400", "invalid_json", FALSE, 0, 0, <<>>),
                      lg, <<>>, 0)
    ELSE IF BatchViolations(reqs) # <<>>
    THEN BatchOutcome(BatchResponse("400", "validation_failed", FALSE, 0, 0, <<>>),
                      lg, <<>>, 0)
    ELSE LET acc == HttpBatchLoop(reqs, 1, id, now,
                        [results |-> <<>>, events |-> <<>>, from |-> <<>>,
                         processed |-> 0, failed |-> 0, drawn |-> 0])
             sent == SendBatchEvents(acc.events,
                                     [k \in 1..Len(acc.from) |-> oks[acc.from[k]]], lg)
         IN  IF sent.err # "none"
             THEN BatchOutcome(BatchResponse("500", "ingestion_failed", FALSE, 0, 0, <<>>),
                               sent.log, sent.calls, acc.drawn)
             ELSE BatchOutcome(
                    BatchResponse(IF acc.failed > 0 THEN "207" ELSE "202", "", TRUE,
                                  acc.processed, acc.failed, acc.results),
                    sent.log, sent.calls, acc.drawn)

(***************************************************************************)
(* The element loop of the gRPC IngestEventBatch.  The context is done     *)
(* from element cancelAt on.  Building the result of a rejected element    *)
(* reads event.Id: on a nil element that read panics.                      *)
(***************************************************************************)
RECURSIVE GrpcBatchLoop(_, _, _, _, _, _, _, _)
GrpcBatchLoop(events, i, cancelAt, oks, failFast, id, now, acc) ==
    IF i > Len(events) THEN acc
    ELSE IF validateEvent(events[i]) # "ok"
    THEN IF events[i].isNil
         THEN [acc EXCEPT !.panic = TRUE]
         ELSE LET acc1 == [acc EXCEPT
                        !.results = Append(@, BatchResult(i, events[i].id, "REJECTED",
                                                          validateEvent(events[i]))),
                        !.failure = @ + 1]
              IN  IF failFast THEN acc1
                  ELSE GrpcBatchLoop(events, i + 1, cancelAt, oks, failFast, id, now, acc1)
    ELSE LET filled == FillDefaults(events[i], id + acc.drawn, now)
             model == protoToModel(filled, now)
             r == ProduceEvent(i >= cancelAt, model, oks[i], acc.log)
             acc0 == [acc EXCEPT
                        !.calls = Append(@, Call(i >= cancelAt, model, r)),
                        !.drawn = @ + (IF events[i].id = EmptyId THEN 1 ELSE 0)]
         IN  IF r.err # "none"
             THEN LET acc1 == [acc0 EXCEPT
                            !.results = Append(@, BatchResult(i, filled.id, "FAILED",
                                                    "failed to produce to Kafka")),
                            !.failure = @ + 1]
                  IN  IF failFast THEN acc1
                      ELSE GrpcBatchLoop(events, i + 1, cancelAt, oks, failFast,
                                         id, now, acc1)
             ELSE GrpcBatchLoop(events, i + 1, cancelAt, oks, failFast, id, now,
                    [acc0 EXCEPT
                        !.results = Append(@, Placed(BatchResult(i, filled.id,
                                                        "ACCEPTED", ""), r)),
                        !.success = @ + 1,
                        !.log = r.log])

\* IngestEventBatch that stops at the first failure whatever fail_fast says
GrpcIngestEventBatch_AlwaysFailFast(events, cancelAt, oks, failFast, lg, id, now) ==
    IF Len(events) = 0
    THEN BatchOutcome(BatchResponse("InvalidArgument", "batch cannot be empty",
                                    FALSE, 0, 0, <<>>), lg, <<>>, 0)
    ELSE LET acc == GrpcBatchLoop(events, 1, cancelAt, oks, TRUE, id, now,
                        [results |-> <<>>, success |-> 0, failure |-> 0,
                         log |-> lg, calls |-> <<>>, drawn |-> 0, panic |-> FALSE])
         IN  IF acc.panic
             THEN BatchOutcome(BatchResponse("Internal", "internal server error",
                                             FALSE, 0, 0, <<>>),
                               acc.log, acc.calls, acc.drawn)
             ELSE BatchOutcome(BatchResponse("OK", "", TRUE, acc.success,
                                             acc.failure, acc.results),
                               acc.log, acc.calls, acc.drawn)

(***************************************************************************)
(* gRPC EventHandler.IngestEventBatch.                                     *)
(***************************************************************************)
GrpcIngestEventBatch(events, cancelAt, oks, failFast, lg, id, now) ==
    IF Len(events) = 0
    THEN BatchOutcome(BatchResponse("InvalidArgument", "batch cannot be empty",
                                    FALSE, 0, 0, <<>>), lg, <<>>, 0)
    ELSE LET acc == GrpcBatchLoop(events, 1, cancelAt, oks, failFast, id, now,
                        [results |-> <<>>, success |-> 0, failure |-> 0,
                         log |-> lg, calls |-> <<>>, drawn |-> 0, panic |-> FALSE])
         IN  IF acc.panic
             THEN BatchOutcome(BatchResponse("Internal", "internal server error",
                                             FALSE, 0, 0, <<>>),
                               acc.log, acc.calls, acc.drawn)
             ELSE BatchOutcome(BatchResponse("OK", "", TRUE, acc.success,
                                             acc.failure, acc.results),
                               acc.log, acc.calls, acc.drawn)

(***************************************************************************)
(* The streaming session.  An outbound message remembers, in re, the       *)
(* position among the received messages of the one it answers.             *)
(***************************************************************************)
OutMsg(kind, re, eventId, reqId, message) ==
    [kind |-> kind, re |-> re, event_id |-> eventId, request_id |-> reqId,
     message |-> message, placed |-> FALSE, partition |-> 0, offset |-> 0]

NoMsg == OutMsg("none", 0, EmptyId, EmptyId, "")

\* the error text of a failed ProduceEvent
ProduceError(err) ==
    IF err = "canceled" THEN "context canceled" ELSE "failed to send event to Kafka"

(***************************************************************************)
(* EventHandler.handleStreamEvent for the message at position re: the      *)
(* acknowledgment, or the error the caller turns into a status message.    *)
(***************************************************************************)
handleStreamEvent(done, reqId, event, sendOk, lg, id, now, re) ==
    IF validateEvent(event) # "ok"
    THEN [err |-> validateEvent(event), ack |-> NoMsg, log |-> lg,
          calls |-> <<>>, drawn |-> 0]
    ELSE LET filled == FillDefaults(event, id, now)
             model == protoToModel(filled, now)
             r == ProduceEvent(done, model, sendOk, lg)
             drawn == IF event.id = EmptyId THEN 1 ELSE 0
         IN  IF r.err # "none"
             THEN [err |-> ProduceError(r.err), ack |-> NoMsg, log |-> r.log,
                   calls |-> <<Call(done, model, r)>>, drawn |-> drawn]
             ELSE [err |-> "", ack |-> Placed(OutMsg("ack", re, filled.id, reqId, ""), r),
                   log |-> r.log, calls |-> <<Call(done, model, r)>>, drawn |-> drawn]

\* the status message StreamEvents builds from a handleStreamEvent error
StatusMsg(re, err) == OutMsg("status", re, EmptyId, EmptyId, err)

\* the pong StreamEvents builds for a ping
PongMsg(re) == OutMsg("pong", re, EmptyId, EmptyId, "")

\* a `break` on io.EOF that leaves the select, not the loop
RecvReturn_BreaksSelectOnly(err) ==
    IF err = "EOF" THEN [pc |-> "select", ret |-> ""]
    ELSE [pc |-> "closed", ret |-> "recv_error"]

(***************************************************************************)
(* How StreamEvents leaves its loop when Recv returns an error: io.EOF     *)
(* ends the handler with nil, any other error with Internal.               *)
(***************************************************************************)
RecvReturn(err) ==
    IF err = "EOF" THEN [pc |-> "closed", ret |-> "eof"]
    ELSE [pc |-> "closed", ret |-> "recv_error"]

(***************************************************************************)
(* The admission controller: rate.NewLimiter(cfg.RequestsPerSecond,        *)
(* cfg.BurstSize) of golang.org/x/time/rate, created once by RateLimit and *)
(* shared by every HTTP request.  Tokens are whole; the bucket starts      *)
(* full.                                                                   *)
(***************************************************************************)
\* Limiter.advance: the tokens at time t, without changing the limiter; a t
\* before the last update counts as no time elapsed
advance(tok, lst, t) ==
    LET from == IF t < lst THEN t ELSE lst
        sum == tok + (t - from) * RefillPerTick
    IN  IF sum > BurstSize THEN BurstSize ELSE sum

\* Limiter.reserveN(t, 1, 0), the body of Allow under the mutex: the verdict
\* and the state of the limiter afterwards (unchanged on a refusal)
reserveN(tok, lst, t) ==
    LET have == advance(tok, lst, t)
        ok == 1 <= BurstSize /\ have >= 1
    IN  [ok |-> ok,
         tokens |-> IF ok THEN have - 1 ELSE tok,
         last |-> IF ok THEN t ELSE lst]

\* a mutex that is granted whoever holds it
TryLock_Unguarded(holders) == TRUE

\* lim.mu.Lock(): granted when nobody holds the mutex
TryLock(holders) == holders = {}

(***************************************************************************)
(* The middleware of the HTTP server, in the order setupMiddleware         *)
(* installs it, for a POST on an API route.  RequestID sets the identifier *)
(* of the request and the X-Request-ID header of the response; RateLimit   *)
(* answers 429 and aborts when Allow refuses; RequestSizeLimit answers 413 *)
(* and aborts when the declared body is too large.  code "next": the       *)
(* route handler runs.                                                     *)
(***************************************************************************)
\* RequestID: the header of the caller, or a fresh uuid
RequestID(supplied, fresh) == IF supplied = EmptyId THEN fresh ELSE supplied

\* the uuids RequestID / getRequestID draw
RequestIdDrawn(supplied) == IF supplied = EmptyId THEN 1 ELSE 0

\* the chain with a RateLimit that calls c.Next() after its 429
HttpMiddleware_NoAbort(supplied, tooLarge, fresh, tok, lst, now) ==
    LET v == reserveN(tok, lst, now)
    IN  [request_id |-> RequestID(supplied, fresh),
         tokens |-> v.tokens, last |-> v.last, took |-> v.ok,
         code |-> IF tooLarge THEN "413" ELSE "next"]

HttpMiddleware(supplied, tooLarge, fresh, tok, lst, now) ==
    LET v == reserveN(tok, lst, now)
    IN  [request_id |-> RequestID(supplied, fresh),
         tokens |-> v.tokens, last |-> v.last, took |-> v.ok,
         code |-> IF ~v.ok THEN "429" ELSE IF tooLarge THEN "413" ELSE "next"]

(***************************************************************************)
(* The gRPC server: its interceptors are logging and recovery, then the    *)
(* handler.  Each unary handler starts with getRequestID and puts the      *)
(* identifier in the response message it returns; an error status carries  *)
(* no identifier.                                                          *)
(***************************************************************************)
\* getRequestID: the first x-request-id of the incoming metadata, or a fresh uuid
getRequestID(supplied, fresh) == IF supplied = EmptyId THEN fresh ELSE supplied

\* the RequestId field of what a unary handler returns
GrpcResponseRequestId(resp, rid) == IF resp.code = "OK" THEN rid ELSE EmptyId

(***************************************************************************)
(* Inputs.                                                                 *)
(***************************************************************************)
Types == {"", "a", "b"}
Sources == {"", "s"}
Datas == {NilData, "d"}

Requests == {EventRequest(t, s, d) : t \in Types, s \in Sources, d \in Datas}

\* what a body that is not JSON leaves in the request struct
ZeroRequest == EventRequest("", "", NilData)

PbEvents ==
    {NilPbEvent}
    \cup {PbEvent(FALSE, EmptyId, t, s, d, NilTime) :
            t \in Types, s \in Sources, d \in Datas}
    \cup {PbEvent(FALSE, CallerId, t, s, d, CallerTime) :
            t \in Types, s \in Sources, d \in Datas}

\* the requests that call the limiter, and where each stands: idle, now
\* (time.Now() read), locked (inside reserveN), done
ReqIds == 1..MaxReqs

IdleReq == [pc |-> "idle", t |-> 0, ok |-> FALSE, tokens |-> 0, last |-> 0]

\* the goroutines that call ToEvent, and where each stands: idle, called,
\* drawn (uuid.New() returned), done (the Event is built)
ConvIds == 1..MaxConv

IdleConv == [pc |-> "idle", req |-> ZeroRequest, id |-> EmptyId,
             event |-> Event(EmptyId, "", "", NilData, NilTime)]

NoConversions == [c \in ConvIds |-> IdleConv]

\* the HTTP requests a metrics run follows, and where each stands: idle,
\* inside (between the Inc and the Dec of Metrics), done (answered)
HttpReqIds == 1..MaxHttp

IdleHttp == [pc |-> "idle", method |-> "", req |-> ZeroRequest, sendOk |-> FALSE, code |-> ""]

\* http_requests_total summed over its labels, and http_active_connections
NoMetrics == [requests_total |-> 0, active |-> 0, reqs |-> [r \in HttpReqIds |-> IdleHttp]]

\* main at its select, after the producer was created and both server
\* goroutines were launched; the gRPC goroutine has not created its server yet
Running ==
    [main |-> "serving", http |-> "up", grpc |-> "starting", producer |-> "open",
     httpInflight |-> 0, grpcInflight |-> 0, usedClosed |-> FALSE]

\* the streaming sessions that run side by side; each has the local state of
\* its own StreamEvents call
SessionIds == {1, 2}

NoSession ==
    [pc |-> "none", requestID |-> EmptyId, inbox |-> <<>>, clientClosed |-> FALSE,
     got |-> <<>>, pending |-> NoMsg, outbox |-> <<>>, ret |-> ""]

NoSessions == [s \in SessionIds |-> NoSession]

\* what a server remembers of its latest exchange
NoEdge ==
    [op |-> "none", supplied |-> EmptyId, request_id |-> EmptyId, code |-> "",
     admitted |-> FALSE, took |-> FALSE, ctxDone |-> FALSE, from |-> 0]

NoExchange ==
    [op |-> "none", req |-> ZeroRequest, ctxDone |-> FALSE, passed |-> FALSE,
     resp |-> Response("", "", "", EmptyId, <<>>), from |-> 0]

Exchange(op, req, ctxDone, o) ==
    [op |-> op, req |-> req, ctxDone |-> ctxDone, passed |-> o.passed,
     resp |-> o.resp, from |-> Len(log)]

Init ==
    /\ log = <<>>
    /\ nextId = 1
    /\ clock = 1
    /\ calls = <<>>
    /\ last = NoExchange
    /\ submitted = 0
    /\ pc = "none"
    /\ requestID = EmptyId
    /\ inbox = <<>>
    /\ clientClosed = FALSE
    /\ ctxCancelled = FALSE
    /\ got = <<>>
    /\ pending = NoMsg
    /\ outbox = <<>>
    /\ ret = ""
    /\ tokens = BurstSize
    /\ limLast = 1
    /\ mu = {}
    /\ callers = [r \in ReqIds |-> IdleReq]
    /\ edge = NoEdge
    /\ md = EmptyId
    /\ conv = NoConversions
    /\ metrics = NoMetrics
    /\ life = Running
    /\ sessions = NoSessions

\* time passes
Tick ==
    /\ clock < MaxClock
    /\ clock' = clock + 1
    /\ UNCHANGED <<log, nextId, calls, last, submitted>>
    /\ UNCHANGED <<streamVars, gateVars, md, sideVars>>

\* a client still has a submission to make within the budget
Arrives(budget) == submitted < budget

Apply(op, req, ctxDone, o) ==
    /\ log' = o.log
    /\ nextId' = nextId + o.drawn
    /\ calls' = o.calls
    /\ last' = Exchange(op, req, ctxDone, o)
    /\ submitted' = submitted + 1
    /\ UNCHANGED clock
    /\ UNCHANGED <<streamVars, gateVars, md, sideVars>>

\* POST /api/v1/events
ServeHttpIngestEvent(budget) ==
    /\ Arrives(budget)
    /\ \/ \E req \in Requests, sendOk \in BOOLEAN :
            Apply("http.IngestEvent", req, FALSE,
                  HttpIngestEvent(TRUE, req, sendOk, log, nextId, clock))
       \/ Apply("http.IngestEvent", ZeroRequest, FALSE,
                HttpIngestEvent(FALSE, ZeroRequest, TRUE, log, nextId, clock))

\* POST /api/v1/events/validate
ServeHttpValidateEvent(budget) ==
    /\ Arrives(budget)
    /\ \/ \E req \in Requests :
            Apply("http.ValidateEvent", req, FALSE,
                  HttpValidateEvent(TRUE, req, log, nextId, clock))
       \/ Apply("http.ValidateEvent", ZeroRequest, FALSE,
                HttpValidateEvent(FALSE, ZeroRequest, log, nextId, clock))

\* EventGateway/IngestEvent
ServeGrpcIngestEvent(budget) ==
    /\ Arrives(budget)
    /\ \E event \in PbEvents, ctxDone \in BOOLEAN, sendOk \in BOOLEAN :
            Apply("grpc.IngestEvent", event, ctxDone,
                  GrpcIngestEvent(event, ctxDone, sendOk, log, nextId, clock))

\* EventGateway/ValidateEvent
ServeGrpcValidateEvent(budget) ==
    /\ Arrives(budget)
    /\ \E event \in PbEvents :
            Apply("grpc.ValidateEvent", event, FALSE, GrpcValidateEvent(event, log))

(***************************************************************************)
(* Batch inputs.  The elements a client puts in a batch, as the gRPC       *)
(* adapter sees them; the HTTP adapter sees the same elements as           *)
(* EventRequests (a JSON null element decodes to the zero struct).         *)
(***************************************************************************)
BatchElems ==
    {PbEvent(FALSE, EmptyId, "a", "s", "d", NilTime),
     PbEvent(FALSE, CallerId, "b", "s", "d", CallerTime),
     PbEvent(FALSE, EmptyId, "a", "", "d", NilTime),
     NilPbEvent}

ToRequest(event) ==
    IF event.isNil THEN ZeroRequest
    ELSE EventRequest(event.type, event.source, event.data)

FromRequest(req) == PbEvent(FALSE, EmptyId, req.type, req.source, req.data, NilTime)

BatchReqs == {ToRequest(e) : e \in BatchElems}

BatchExchange(op, reqs, cancelAt, oks, failFast, o) ==
    [op |-> op, req |-> reqs, cancelAt |-> cancelAt, oks |-> oks,
     failFast |-> failFast, resp |-> o.resp, from |-> Len(log)]

\* an empty batch counts as one submission
ArrivesBatch(n, budget) == submitted + (IF n = 0 THEN 1 ELSE n) <= budget

ApplyBatch(op, reqs, cancelAt, oks, failFast, o) ==
    /\ log' = o.log
    /\ nextId' = nextId + o.drawn
    /\ calls' = o.calls
    /\ last' = BatchExchange(op, reqs, cancelAt, oks, failFast, o)
    /\ submitted' = submitted + (IF Len(reqs) = 0 THEN 1 ELSE Len(reqs))
    /\ UNCHANGED clock
    /\ UNCHANGED <<streamVars, gateVars, md, sideVars>>

\* POST /api/v1/events/batch
ServeHttpIngestBatch(budget) ==
    \E n \in 0..MaxBatchLen :
        /\ ArrivesBatch(n, budget)
        /\ \/ \E reqs \in [1..n -> BatchReqs], oks \in [1..n -> BOOLEAN] :
                ApplyBatch("http.IngestBatch", reqs, n + 1, oks, FALSE,
                           HttpIngestBatch(TRUE, reqs, oks, log, nextId, clock))
           \/ /\ n = 0
              /\ ApplyBatch("http.IngestBatch", <<>>, 1, <<>>, FALSE,
                            HttpIngestBatch(FALSE, <<>>, <<>>, log, nextId, clock))

\* EventGateway/IngestEventBatch
ServeGrpcIngestEventBatch(budget) ==
    \E n \in 0..MaxBatchLen :
        /\ ArrivesBatch(n, budget)
        /\ \E events \in [1..n -> BatchElems], oks \in [1..n -> BOOLEAN],
              cancelAt \in 1..(n + 1), failFast \in BOOLEAN :
                ApplyBatch("grpc.IngestEventBatch", events, cancelAt, oks, failFast,
                           GrpcIngestEventBatch(events, cancelAt, oks, failFast,
                                                log, nextId, clock))

NextBatch ==
    \/ ServeHttpIngestBatch(MaxEvents)
    \/ ServeGrpcIngestEventBatch(MaxEvents)

SpecBatch == Init /\ [][NextBatch]_vars

(***************************************************************************)
(* The messages a streaming client sends.                                  *)
(***************************************************************************)
InMsg(kind, event) == [kind |-> kind, event |-> event]

StreamMsgs ==
    {InMsg("event", e) : e \in BatchElems}
    \cup {InMsg("ping", NilPbEvent), InMsg("config", NilPbEvent)}

\* the session is open and its handler has not returned
Live == pc \in {"select", "recv", "handle", "send"}

\* a client opens a stream, with an x-request-id of mds in its metadata (EmptyId:
\* with none); StreamEvents starts and draws the identifier of the session
StreamOpen(mds) ==
    /\ pc = "none"
    /\ pc' = "select"
    /\ requestID' = nextId
    /\ nextId' = nextId + 1
    /\ \E supplied \in mds : md' = supplied
    /\ UNCHANGED sideVars
    /\ UNCHANGED <<log, clock, calls, syncVars, gateVars>>
    /\ UNCHANGED <<inbox, clientClosed, ctxCancelled, got, pending, outbox, ret>>

ClientSend(budget) ==
    /\ Live
    /\ ~clientClosed
    /\ Arrives(budget)
    /\ \E m \in StreamMsgs : inbox' = Append(inbox, m)
    /\ submitted' = submitted + 1
    /\ UNCHANGED <<log, nextId, clock, calls, last, gateVars, md, sideVars>>
    /\ UNCHANGED <<pc, requestID, clientClosed, ctxCancelled, got, pending, outbox, ret>>

ClientCloseSend ==
    /\ Live
    /\ ~clientClosed
    /\ clientClosed' = TRUE
    /\ UNCHANGED <<log, nextId, clock, calls, syncVars, gateVars, md, sideVars>>
    /\ UNCHANGED <<pc, requestID, inbox, ctxCancelled, got, pending, outbox, ret>>

\* the client cancels, its deadline passes or its connection drops
Cancel ==
    /\ Live
    /\ ~ctxCancelled
    /\ ctxCancelled' = TRUE
    /\ UNCHANGED <<log, nextId, clock, calls, syncVars, gateVars, md, sideVars>>
    /\ UNCHANGED <<pc, requestID, inbox, clientClosed, got, pending, outbox, ret>>

\* the top of the loop: select on ctx.Done() with a default branch
StreamSelect ==
    /\ pc = "select"
    /\ IF ctxCancelled
       THEN pc' = "closed" /\ ret' = "canceled"
       ELSE pc' = "recv" /\ ret' = ret
    /\ UNCHANGED <<log, nextId, clock, calls, syncVars, gateVars, md, sideVars>>
    /\ UNCHANGED <<requestID, inbox, clientClosed, ctxCancelled, got, pending, outbox>>

\* a switch whose Config case answers with a pong
StreamRecvMsg_AnswersConfig ==
    /\ pc = "recv"
    /\ inbox # <<>>
    /\ got' = Append(got, Head(inbox))
    /\ inbox' = Tail(inbox)
    /\ CASE Head(inbox).kind = "event" -> pc' = "handle" /\ pending' = pending
         [] OTHER -> pc' = "send" /\ pending' = PongMsg(Len(got) + 1)
    /\ UNCHANGED <<log, nextId, clock, calls, syncVars, gateVars, md, sideVars>>
    /\ UNCHANGED <<requestID, clientClosed, ctxCancelled, outbox, ret>>

\* Recv returns a message; the switch on its kind starts
StreamRecvMsg ==
    /\ pc = "recv"
    /\ inbox # <<>>
    /\ got' = Append(got, Head(inbox))
    /\ inbox' = Tail(inbox)
    /\ CASE Head(inbox).kind = "event" -> pc' = "handle" /\ pending' = pending
         [] Head(inbox).kind = "ping" -> pc' = "send" /\ pending' = PongMsg(Len(got) + 1)
         [] OTHER -> pc' = "select" /\ pending' = pending
    /\ UNCHANGED <<log, nextId, clock, calls, syncVars, gateVars, md, sideVars>>
    /\ UNCHANGED <<requestID, clientClosed, ctxCancelled, outbox, ret>>

\* Recv returns io.EOF: the client has half-closed and nothing is left
StreamRecvEOF ==
    /\ pc = "recv"
    /\ inbox = <<>>
    /\ clientClosed
    /\ pc' = RecvReturn("EOF").pc
    /\ ret' = RecvReturn("EOF").ret
    /\ UNCHANGED <<log, nextId, clock, calls, syncVars, gateVars, md, sideVars>>
    /\ UNCHANGED <<requestID, inbox, clientClosed, ctxCancelled, got, pending, outbox>>

\* Recv returns another error: the context is done or the transport failed
StreamRecvError ==
    /\ pc = "recv"
    /\ pc' = RecvReturn("error").pc
    /\ ret' = RecvReturn("error").ret
    /\ UNCHANGED <<log, nextId, clock, calls, syncVars, gateVars, md, sideVars>>
    /\ UNCHANGED <<requestID, inbox, clientClosed, ctxCancelled, got, pending, outbox>>

\* case Event where an error of handleStreamEvent ends the handler
StreamHandle_ReturnsOnError ==
    /\ pc = "handle"
    /\ \E sendOk \in BOOLEAN :
         LET h == handleStreamEvent(ctxCancelled, requestID, got[Len(got)].event, sendOk,
                                    log, nextId, clock, Len(got))
         IN  /\ log' = h.log
             /\ nextId' = nextId + h.drawn
             /\ calls' = h.calls
             /\ pending' = IF h.err # "" THEN NoMsg ELSE h.ack
             /\ pc' = IF h.err # "" THEN "closed" ELSE "send"
             /\ ret' = IF h.err # "" THEN "event_error" ELSE ret
    /\ UNCHANGED <<clock, syncVars, gateVars, md, sideVars>>
    /\ UNCHANGED <<requestID, inbox, clientClosed, ctxCancelled, got, outbox>>

\* case Event: handleStreamEvent, then the status or the acknowledgment to send
StreamHandle ==
    /\ pc = "handle"
    /\ \E sendOk \in BOOLEAN :
         LET h == handleStreamEvent(ctxCancelled, requestID, got[Len(got)].event, sendOk,
                                    log, nextId, clock, Len(got))
         IN  /\ log' = h.log
             /\ nextId' = nextId + h.drawn
             /\ calls' = h.calls
             /\ pending' = IF h.err # "" THEN StatusMsg(Len(got), h.err) ELSE h.ack
    /\ pc' = "send"
    /\ UNCHANGED <<clock, syncVars, gateVars, md, sideVars>>
    /\ UNCHANGED <<requestID, inbox, clientClosed, ctxCancelled, got, outbox, ret>>

\* the error branch without its stream.Send: the status is only logged
StreamSend_SkipsStatus ==
    /\ pc = "send"
    /\ outbox' = IF pending.kind = "status" THEN outbox ELSE Append(outbox, pending)
    /\ pending' = NoMsg
    /\ pc' = "select"
    /\ UNCHANGED <<log, nextId, clock, calls, syncVars, gateVars, md, sideVars>>
    /\ UNCHANGED <<requestID, inbox, clientClosed, ctxCancelled, got, ret>>

\* stream.Send delivers the pending message
StreamSend ==
    /\ pc = "send"
    /\ outbox' = Append(outbox, pending)
    /\ pending' = NoMsg
    /\ pc' = "select"
    /\ UNCHANGED <<log, nextId, clock, calls, syncVars, gateVars, md, sideVars>>
    /\ UNCHANGED <<requestID, inbox, clientClosed, ctxCancelled, got, ret>>

\* stream.Send fails: the handler returns its error
StreamSendError ==
    /\ pc = "send"
    /\ pending' = NoMsg
    /\ pc' = "closed"
    /\ ret' = "send_error"
    /\ UNCHANGED <<log, nextId, clock, calls, syncVars, gateVars, md, sideVars>>
    /\ UNCHANGED <<requestID, inbox, clientClosed, ctxCancelled, got, outbox>>

NextStream ==
    \/ StreamOpen({EmptyId})
    \/ ClientSend(MaxEvents)
    \/ ClientCloseSend
    \/ Cancel
    \/ StreamSelect
    \/ StreamRecvMsg
    \/ StreamRecvEOF
    \/ StreamRecvError
    \/ StreamHandle
    \/ StreamSend
    \/ StreamSendError

SpecStream == Init /\ [][NextStream]_vars

(***************************************************************************)
(* The handler goroutine keeps running: select does not block, Recv        *)
(* returns once a message or the end of the stream is there or the context *)
(* is done, ProduceEvent returns within the timeouts of the broker client, *)
(* Send returns.                                                           *)
(***************************************************************************)
SpecStreamFair ==
    /\ Init
    /\ [][NextStream]_vars
    /\ WF_vars(StreamSelect)
    /\ WF_vars(StreamRecvMsg)
    /\ WF_vars(StreamRecvEOF)
    /\ WF_vars(ctxCancelled /\ StreamRecvError)
    /\ WF_vars(StreamHandle)
    /\ WF_vars(StreamSend \/ StreamSendError)

NextUnary ==
    \/ Tick
    \/ ServeHttpIngestEvent(MaxUnary)
    \/ ServeHttpValidateEvent(MaxUnary)
    \/ ServeGrpcIngestEvent(MaxUnary)
    \/ ServeGrpcValidateEvent(MaxUnary)

SpecUnary == Init /\ [][NextUnary]_vars

(***************************************************************************)
(* The gateway: both adapters and a streaming session on one producer.     *)
(***************************************************************************)
(***************************************************************************)
(* Requests that reach the limiter concurrently.  Allow reads time.Now()   *)
(* and then runs reserveN under the mutex of the limiter.                  *)
(***************************************************************************)
\* Allow: time.Now()
LimiterNow(r) ==
    /\ callers[r].pc = "idle"
    /\ callers' = [callers EXCEPT ![r] = [@ EXCEPT !.pc = "now", !.t = clock]]
    /\ UNCHANGED <<tokens, limLast, mu, edge, md, sideVars>>
    /\ UNCHANGED <<log, nextId, clock, calls, syncVars, streamVars>>

\* reserveN: take the mutex and compute the verdict from the state of the limiter
LimiterEnter(r) ==
    /\ callers[r].pc = "now"
    /\ TryLock(mu)
    /\ mu' = mu \cup {r}
    /\ LET v == reserveN(tokens, limLast, callers[r].t)
       IN  callers' = [callers EXCEPT ![r] = [pc |-> "locked", t |-> callers[r].t, ok |-> v.ok,
                                         tokens |-> v.tokens, last |-> v.last]]
    /\ UNCHANGED <<tokens, limLast, edge, md, sideVars>>
    /\ UNCHANGED <<log, nextId, clock, calls, syncVars, streamVars>>

\* reserveN: update the limiter, release the mutex, return the verdict
LimiterLeave(r) ==
    /\ callers[r].pc = "locked"
    /\ tokens' = callers[r].tokens
    /\ limLast' = callers[r].last
    /\ mu' = mu \ {r}
    /\ callers' = [callers EXCEPT ![r] = [@ EXCEPT !.pc = "done"]]
    /\ UNCHANGED <<edge, md, sideVars>>
    /\ UNCHANGED <<log, nextId, clock, calls, syncVars, streamVars>>

NextLimiter ==
    \/ Tick
    \/ \E r \in ReqIds : LimiterNow(r)
    \/ \E r \in ReqIds : LimiterEnter(r)
    \/ \E r \in ReqIds : LimiterLeave(r)

SpecLimiter == Init /\ [][NextLimiter]_vars

(***************************************************************************)
(* The two servers as their clients reach them: an HTTP request passes the *)
(* middleware before its route handler, a unary gRPC call passes the       *)
(* interceptors.  supplied: the request identifier of the caller, if any;  *)
(* ctxDone: the context of the request is done when the handler starts.    *)
(***************************************************************************)
SuppliedIds == {EmptyId, CallerRequestId}

GateRequests == {EventRequest("a", "s", "d"), EventRequest("a", "", "d")}

GateEvents ==
    {PbEvent(FALSE, EmptyId, "a", "s", "d", NilTime),
     PbEvent(FALSE, CallerId, "b", "", "d", CallerTime)}

Edge(op, supplied, rid, code, admitted, took, ctxDone) ==
    [op |-> op, supplied |-> supplied, request_id |-> rid, code |-> code,
     admitted |-> admitted, took |-> took, ctxDone |-> ctxDone, from |-> Len(log)]

\* a request the middleware answered: no handler ran
NotServed == [log |-> log, calls |-> <<>>, drawn |-> 0]

GateApply(x, o, cost, e, tok, lst, ridDrawn) ==
    /\ log' = o.log
    /\ nextId' = nextId + ridDrawn + o.drawn
    /\ calls' = o.calls
    /\ last' = x
    /\ edge' = e
    /\ tokens' = tok
    /\ limLast' = lst
    /\ submitted' = submitted + cost
    /\ UNCHANGED <<clock, mu, callers, md, sideVars>>
    /\ UNCHANGED streamVars

\* x, o: the exchange and the outcome of the route handler, if it runs
ServeHttp(op, supplied, ctxDone, tooLarge, x, o, cost) ==
    LET m == HttpMiddleware(supplied, tooLarge, nextId, tokens, limLast, clock)
    IN  IF m.code = "next"
        THEN GateApply(x, o, cost,
                       Edge(op, supplied, m.request_id, o.resp.code, TRUE, m.took, ctxDone),
                       m.tokens, m.last, RequestIdDrawn(supplied))
        ELSE GateApply(last, NotServed, cost,
                       Edge(op, supplied, m.request_id, m.code, FALSE, m.took, ctxDone),
                       m.tokens, m.last, RequestIdDrawn(supplied))

ServeGrpc(op, supplied, ctxDone, x, o, cost) ==
    GateApply(x, o, cost,
              Edge(op, supplied,
                   GrpcResponseRequestId(o.resp, getRequestID(supplied, nextId)),
                   o.resp.code, TRUE, FALSE, ctxDone),
              tokens, limLast, RequestIdDrawn(supplied))

\* POST /api/v1/events through the middleware
GateHttpIngestEvent(budget) ==
    /\ Arrives(budget)
    /\ \E supplied \in SuppliedIds, ctxDone \in BOOLEAN, tooLarge \in BOOLEAN,
          req \in GateRequests, sendOk \in BOOLEAN :
            ServeHttp("http.IngestEvent", supplied, ctxDone, tooLarge,
                      Exchange("http.IngestEvent", req, ctxDone,
                               HttpIngestEvent(TRUE, req, sendOk, log,
                                               nextId + RequestIdDrawn(supplied), clock)),
                      HttpIngestEvent(TRUE, req, sendOk, log,
                                      nextId + RequestIdDrawn(supplied), clock),
                      1)

\* POST /api/v1/events/validate through the middleware
GateHttpValidateEvent(budget) ==
    /\ Arrives(budget)
    /\ \E supplied \in SuppliedIds, req \in GateRequests, jsonOk \in BOOLEAN :
            ServeHttp("http.ValidateEvent", supplied, FALSE, FALSE,
                      Exchange("http.ValidateEvent", req, FALSE,
                               HttpValidateEvent(jsonOk, req, log,
                                                 nextId + RequestIdDrawn(supplied), clock)),
                      HttpValidateEvent(jsonOk, req, log,
                                        nextId + RequestIdDrawn(supplied), clock),
                      1)

\* POST /api/v1/events/batch through the middleware
GateHttpIngestBatch(budget) ==
    \E n \in 1..2 :
        /\ ArrivesBatch(n, budget)
        /\ \E supplied \in SuppliedIds, ctxDone \in BOOLEAN,
              reqs \in [1..n -> GateRequests], oks \in [1..n -> BOOLEAN] :
                ServeHttp("http.IngestBatch", supplied, ctxDone, FALSE,
                          BatchExchange("http.IngestBatch", reqs,
                                        IF ctxDone THEN 1 ELSE n + 1, oks, FALSE,
                                        HttpIngestBatch(TRUE, reqs, oks, log,
                                            nextId + RequestIdDrawn(supplied), clock)),
                          HttpIngestBatch(TRUE, reqs, oks, log,
                                          nextId + RequestIdDrawn(supplied), clock),
                          n)

\* EventGateway/IngestEvent through the interceptors
GateGrpcIngestEvent(budget) ==
    /\ Arrives(budget)
    /\ \E supplied \in SuppliedIds, ctxDone \in BOOLEAN,
          event \in GateEvents, sendOk \in BOOLEAN :
            ServeGrpc("grpc.IngestEvent", supplied, ctxDone,
                      Exchange("grpc.IngestEvent", event, ctxDone,
                               GrpcIngestEvent(event, ctxDone, sendOk, log,
                                               nextId + RequestIdDrawn(supplied), clock)),
                      GrpcIngestEvent(event, ctxDone, sendOk, log,
                                      nextId + RequestIdDrawn(supplied), clock),
                      1)

\* EventGateway/ValidateEvent through the interceptors
GateGrpcValidateEvent(budget) ==
    /\ Arrives(budget)
    /\ \E supplied \in SuppliedIds, event \in GateEvents :
            ServeGrpc("grpc.ValidateEvent", supplied, FALSE,
                      Exchange("grpc.ValidateEvent", event, FALSE,
                               GrpcValidateEvent(event, log)),
                      GrpcValidateEvent(event, log),
                      1)

\* EventGateway/IngestEventBatch through the interceptors
GateGrpcIngestEventBatch(budget) ==
    \E n \in 1..2 :
        /\ ArrivesBatch(n, budget)
        /\ \E supplied \in SuppliedIds, ctxDone \in BOOLEAN, failFast \in BOOLEAN,
              events \in [1..n -> GateEvents], oks \in [1..n -> BOOLEAN] :
                ServeGrpc("grpc.IngestEventBatch", supplied, ctxDone,
                          BatchExchange("grpc.IngestEventBatch", events,
                                        IF ctxDone THEN 1 ELSE n + 1, oks, failFast,
                                        GrpcIngestEventBatch(events,
                                            IF ctxDone THEN 1 ELSE n + 1, oks, failFast,
                                            log, nextId + RequestIdDrawn(supplied), clock)),
                          GrpcIngestEventBatch(events, IF ctxDone THEN 1 ELSE n + 1,
                                               oks, failFast, log,
                                               nextId + RequestIdDrawn(supplied), clock),
                          n)

NextGateway ==
    \/ Tick
    \/ GateHttpIngestEvent(MaxGate)
    \/ GateHttpValidateEvent(MaxGate)
    \/ GateHttpIngestBatch(MaxGate)
    \/ GateGrpcIngestEvent(MaxGate)
    \/ GateGrpcValidateEvent(MaxGate)
    \/ GateGrpcIngestEventBatch(MaxGate)

SpecGateway == Init /\ [][NextGateway]_vars

(***************************************************************************)
(* The two servers and a streaming session together.                       *)
(***************************************************************************)
NextServers ==
    \/ GateHttpIngestEvent(MaxShared)
    \/ GateHttpValidateEvent(MaxShared)
    \/ GateHttpIngestBatch(MaxShared)
    \/ GateGrpcIngestEvent(MaxShared)
    \/ GateGrpcValidateEvent(MaxShared)
    \/ GateGrpcIngestEventBatch(MaxShared)
    \/ StreamOpen(SuppliedIds)
    \/ ClientSend(MaxShared)
    \/ ClientCloseSend
    \/ Cancel
    \/ StreamSelect
    \/ StreamRecvMsg
    \/ StreamRecvEOF
    \/ StreamRecvError
    \/ StreamHandle
    \/ StreamSend
    \/ StreamSendError

SpecServers == Init /\ [][NextServers]_vars

Next ==
    \/ ServeHttpIngestEvent(MaxShared)
    \/ ServeHttpValidateEvent(MaxShared)
    \/ ServeGrpcIngestEvent(MaxShared)
    \/ ServeGrpcValidateEvent(MaxShared)
    \/ ServeHttpIngestBatch(MaxShared)
    \/ ServeGrpcIngestEventBatch(MaxShared)
    \/ StreamOpen({EmptyId})
    \/ ClientSend(MaxShared)
    \/ ClientCloseSend
    \/ Cancel
    \/ StreamSelect
    \/ StreamRecvMsg
    \/ StreamRecvEOF
    \/ StreamRecvError
    \/ StreamHandle
    \/ StreamSend
    \/ StreamSendError

Spec == Init /\ [][Next]_vars

(***************************************************************************)
(* Batches at the limits of the size rule: empty, short, BatchSizeMax      *)
(* elements and one more.  Here submitted counts batches.                  *)
(***************************************************************************)
MaxSized == 2      \* batches the clients submit in all

BatchSizes == {0, 1, BatchSizeMax, BatchSizeMax + 1}

HttpBatchSizes == {0, 1, 2, BatchSizeMax + 1}

ApplySized(op, reqs, oks, failFast, o) ==
    /\ log' = o.log
    /\ nextId' = nextId + o.drawn
    /\ calls' = o.calls
    /\ last' = BatchExchange(op, reqs, Len(reqs) + 1, oks, failFast, o)
    /\ submitted' = submitted + 1
    /\ UNCHANGED clock
    /\ UNCHANGED <<streamVars, gateVars, md, sideVars>>

\* POST /api/v1/events/batch with n elements, each the same valid event
ServeHttpIngestBatchOfSize ==
    /\ submitted < MaxSized
    /\ \E n \in HttpBatchSizes, sendOk \in BOOLEAN :
        LET reqs == [i \in 1..n |-> EventRequest("a", "s", "d")]
            oks == [i \in 1..n |-> sendOk]
        IN  ApplySized("http.IngestBatch", reqs, oks, FALSE,
                       HttpIngestBatch(TRUE, reqs, oks, log, nextId, clock))

\* EventGateway/IngestEventBatch with n elements and fail_fast set: a valid
\* event, then events without source
ServeGrpcIngestEventBatchOfSize ==
    /\ submitted < MaxSized
    /\ \E n \in BatchSizes, sendOk \in BOOLEAN :
        LET events == [i \in 1..n |->
                        PbEvent(FALSE, EmptyId, "a", IF i = 1 THEN "s" ELSE "", "d",
                                NilTime)]
            oks == [i \in 1..n |-> sendOk]
        IN  ApplySized("grpc.IngestEventBatch", events, oks, TRUE,
                       GrpcIngestEventBatch(events, n + 1, oks, TRUE,
                                            log, nextId, clock))

NextBatchSize ==
    \/ Tick
    \/ ServeHttpIngestBatchOfSize
    \/ ServeGrpcIngestEventBatchOfSize

SpecBatchSize == Init /\ [][NextBatchSize]_vars

(***************************************************************************)
(* The producer and its broker client.  NewProducer builds the sarama      *)
(* configuration once: RequiredAcks is WaitForAll whatever                 *)
(* cfg.RequiredAcks says, Retry.Max is cfg.Retries.  The SyncProducer      *)
(* sends a message, and sends it again after an error the client can       *)
(* retry, until Retry.Max retries are spent.  What the brokers do with one *)
(* attempt: "replicated" (every in-sync replica has the record),           *)
(* "leader_only" (the leader has it, the replicas do not in time),         *)
(* "not_leader" (the broker refuses), "too_large" (the record can never be *)
(* stored).                                                                *)
(***************************************************************************)
MaxRetries == 1    \* largest cfg.Retries
MaxProduce == 1    \* ProduceEvent calls made on the producer

WaitForLocal == 1
WaitForAll == -1

KafkaConfigs ==
    {[retries |-> n, required_acks |-> a] :
        n \in 0..MaxRetries, a \in {WaitForLocal, WaitForAll}}

\* a configuration that takes the acknowledgment level from cfg.RequiredAcks
NewProducer_ConfiguredAcks(cfg) ==
    [RequiredAcks |-> cfg.required_acks, RetryMax |-> cfg.retries]

NewProducer(cfg) == [RequiredAcks |-> WaitForAll, RetryMax |-> cfg.retries]

BrokerOutcomes == {"replicated", "leader_only", "not_leader", "too_large"}

\* how one attempt ends for the client
AttemptResult(sc, outcome) ==
    CASE outcome = "replicated" -> "ok"
      [] outcome = "leader_only" ->
            IF sc.RequiredAcks = WaitForAll THEN "retriable" ELSE "ok"
      [] outcome = "not_leader" -> "retriable"
      [] OTHER -> "fatal"

\* SyncProducer.SendMessage from attempt k on; outcomes[k]: what the brokers
\* do with attempt k
RECURSIVE SendMessage(_, _, _)
SendMessage(sc, outcomes, k) ==
    LET r == AttemptResult(sc, outcomes[k])
    IN  IF r = "ok" THEN [ok |-> TRUE, attempts |-> k]
        ELSE IF r = "retriable" /\ k <= sc.RetryMax
        THEN SendMessage(sc, outcomes, k + 1)
        ELSE [ok |-> FALSE, attempts |-> k]

\* the state after NewProducer(cfg)
InitProducer ==
    /\ log = <<>>
    /\ nextId = 1
    /\ clock = 1
    /\ calls = <<>>
    /\ \E cfg \in KafkaConfigs :
            last = [op |-> "NewProducer", cfg |-> cfg, producer |-> NewProducer(cfg),
                    outcomes |-> <<>>, attempts |-> 0,
                    err |-> "none", partition |-> 0, offset |-> 0, from |-> 0]
    /\ submitted = 0
    /\ pc = "none"
    /\ requestID = EmptyId
    /\ inbox = <<>>
    /\ clientClosed = FALSE
    /\ ctxCancelled = FALSE
    /\ got = <<>>
    /\ pending = NoMsg
    /\ outbox = <<>>
    /\ ret = ""
    /\ tokens = BurstSize
    /\ limLast = 1
    /\ mu = {}
    /\ callers = [r \in ReqIds |-> IdleReq]
    /\ edge = NoEdge
    /\ md = EmptyId
    /\ conv = NoConversions
    /\ metrics = NoMetrics
    /\ life = Running
    /\ sessions = NoSessions

\* one ProduceEvent call under a live context
CallProduceEvent ==
    /\ Arrives(MaxProduce)
    /\ last.op \in {"NewProducer", "ProduceEvent"}
    /\ \E t \in {"a", "b"},
          outcomes \in [1..(last.producer.RetryMax + 1) -> BrokerOutcomes] :
            LET event == Event(nextId, t, "s", "d", clock)
                s == SendMessage(last.producer, outcomes, 1)
                r == ProduceEvent(FALSE, event, s.ok, log)
            IN  /\ log' = r.log
                /\ calls' = <<Call(FALSE, event, r)>>
                /\ last' = [last EXCEPT !.op = "ProduceEvent",
                                        !.outcomes = outcomes,
                                        !.attempts = s.attempts,
                                        !.err = r.err,
                                        !.partition = r.partition,
                                        !.offset = r.offset,
                                        !.from = Len(log)]
    /\ nextId' = nextId + 1
    /\ submitted' = submitted + 1
    /\ UNCHANGED clock
    /\ UNCHANGED <<streamVars, gateVars, md, sideVars>>

NextProducer ==
    \/ Tick
    \/ CallProduceEvent

SpecProducer == InitProducer /\ [][NextProducer]_vars

(***************************************************************************)
(* Health reports.  A handler holds the producer it was built with:        *)
(* "nil" (no producer attached), "no_client" (a Producer whose sarama      *)
(* client is nil) or "client".                                             *)
(***************************************************************************)
MaxProbes == 3     \* health probes the clients make in all

ProducerHandles == {"nil", "no_client", "client"}

\* Producer.IsHealthy: the sarama client exists
IsHealthy(p) == p # "no_client"

HealthReport(op, code, status, kafka, now) ==
    [op |-> op, code |-> code, status |-> status, kafka |-> kafka, timestamp |-> now]

\* GET /health
Health(p, now) == HealthReport("http.Health", "200", "healthy", "", now)

\* GET /health/live
HealthLive(p, now) == HealthReport("http.Live", "200", "alive", "", now)

\* GET /health/detailed
DetailedHealth(p, now) ==
    IF p = "nil"
    THEN HealthReport("http.DetailedHealth", "200", "degraded", "unavailable", now)
    ELSE IF ~IsHealthy(p)
    THEN HealthReport("http.DetailedHealth", "200", "degraded", "unhealthy", now)
    ELSE HealthReport("http.DetailedHealth", "200", "healthy", "healthy", now)

\* GET /health/ready
Ready(p, now) ==
    IF p = "nil"
    THEN HealthReport("http.Ready", "503", "not_ready", "unavailable", now)
    ELSE IF ~IsHealthy(p)
    THEN HealthReport("http.Ready", "503", "not_ready", "not_ready", now)
    ELSE HealthReport("http.Ready", "200", "ready", "ready", now)

\* EventGateway/HealthCheck; the kafka component is part of a detailed answer only
HealthCheck(p, detailed, now) ==
    HealthReport("grpc.HealthCheck", "OK", "HEALTHY",
                 IF detailed THEN "UP" ELSE "", now)

\* the state after the handlers were built with a producer
InitHealth ==
    /\ log = <<>>
    /\ nextId = 1
    /\ clock = 1
    /\ calls = <<>>
    /\ last = NoExchange
    /\ submitted = 0
    /\ pc = "none"
    /\ requestID = EmptyId
    /\ inbox = <<>>
    /\ clientClosed = FALSE
    /\ ctxCancelled = FALSE
    /\ got = <<>>
    /\ pending = NoMsg
    /\ outbox = <<>>
    /\ ret = ""
    /\ tokens = BurstSize
    /\ limLast = 1
    /\ mu = {}
    /\ callers = [r \in ReqIds |-> IdleReq]
    /\ \E p \in ProducerHandles :
            edge = [producer |-> p, report |-> HealthReport("none", "", "", "", 0)]
    /\ md = EmptyId
    /\ conv = NoConversions
    /\ metrics = NoMetrics
    /\ life = Running
    /\ sessions = NoSessions

Probe(report) ==
    /\ edge' = [edge EXCEPT !.report = report]
    /\ submitted' = submitted + 1
    /\ UNCHANGED <<log, nextId, clock, calls, last, tokens, limLast, mu, callers, md, sideVars>>
    /\ UNCHANGED streamVars

ServeHealth ==
    /\ Arrives(MaxProbes)
    /\ Probe(Health(edge.producer, clock))

ServeLive ==
    /\ Arrives(MaxProbes)
    /\ Probe(HealthLive(edge.producer, clock))

ServeDetailedHealth ==
    /\ Arrives(MaxProbes)
    /\ Probe(DetailedHealth(edge.producer, clock))

ServeReady ==
    /\ Arrives(MaxProbes)
    /\ Probe(Ready(edge.producer, clock))

ServeHealthCheck ==
    /\ Arrives(MaxProbes)
    /\ \E detailed \in BOOLEAN : Probe(HealthCheck(edge.producer, detailed, clock))

NextHealth ==
    \/ Tick
    \/ ServeHealth
    \/ ServeLive
    \/ ServeDetailedHealth
    \/ ServeReady
    \/ ServeHealthCheck

SpecHealth == InitHealth /\ [][NextHealth]_vars

(***************************************************************************)
(* uuid.New: the next identifier of the random source and the source       *)
(* afterwards.  Two draws never return the same value.                     *)
(***************************************************************************)
\* a source that can return a value again
uuidNew_Repeats(next) == [id |-> 1, next |-> next + 1]

uuidNew(next) == [id |-> next, next |-> next + 1]

(***************************************************************************)
(* Goroutines that convert a request with EventRequest.ToEvent at the same *)
(* time: each calls uuid.New(), then time.Now(), and builds the Event.     *)
(***************************************************************************)
ConvCall(c) ==
    /\ conv[c].pc = "idle"
    /\ \E req \in GateRequests :
            conv' = [conv EXCEPT ![c] = [@ EXCEPT !.pc = "called", !.req = req]]
    /\ UNCHANGED <<log, nextId, clock, calls, syncVars, streamVars, gateVars, md,
                   metrics, life, sessions>>

ConvUuid(c) ==
    /\ conv[c].pc = "called"
    /\ conv' = [conv EXCEPT ![c] = [@ EXCEPT !.pc = "drawn", !.id = uuidNew(nextId).id]]
    /\ nextId' = uuidNew(nextId).next
    /\ UNCHANGED <<log, clock, calls, syncVars, streamVars, gateVars, md, metrics, life,
                   sessions>>

ConvReturn(c) ==
    /\ conv[c].pc = "drawn"
    /\ conv' = [conv EXCEPT ![c] = [@ EXCEPT !.pc = "done",
                                             !.event = ToEvent(conv[c].req, conv[c].id,
                                                               clock)]]
    /\ UNCHANGED <<log, nextId, clock, calls, syncVars, streamVars, gateVars, md,
                   metrics, life, sessions>>

NextToEvent ==
    \/ Tick
    \/ \E c \in ConvIds : ConvCall(c)
    \/ \E c \in ConvIds : ConvUuid(c)
    \/ \E c \in ConvIds : ConvReturn(c)

SpecToEvent == Init /\ [][NextToEvent]_vars

(***************************************************************************)
(* The metrics of the HTTP server.  Metrics is the sixth middleware: it    *)
(* runs only for a request that CORS and RateLimit passed on.  It          *)
(* increments http_active_connections, calls c.Next() (RequestSizeLimit    *)
(* and the route handler), then increments http_requests_total and, by its *)
(* defer, decrements the gauge.                                            *)
(***************************************************************************)
HttpMethods == {"POST", "OPTIONS"}

\* CORS: a preflight is answered 204 and aborted
CORS(method) == IF method = "OPTIONS" THEN "204" ELSE "next"

\* the middleware before Metrics and RequestSizeLimit after it: the answer of
\* the chain ("next": the route handler runs), the limiter afterwards, and
\* whether Metrics was reached
HttpChain(method, supplied, tooLarge, fresh, tok, lst, now) ==
    IF CORS(method) # "next"
    THEN [code |-> CORS(method), tokens |-> tok, last |-> lst, metrics |-> FALSE]
    ELSE LET m == HttpMiddleware(supplied, tooLarge, fresh, tok, lst, now)
         IN  [code |-> m.code, tokens |-> m.tokens, last |-> m.last,
              metrics |-> m.code # "429"]

\* a request on /api/v1/events arrives and runs up to c.Next() of Metrics, or
\* to the abort before it
HttpReceive(r) ==
    /\ metrics.reqs[r].pc = "idle"
    /\ \E method \in HttpMethods, tooLarge \in BOOLEAN, req \in GateRequests,
          sendOk \in BOOLEAN :
            LET c == HttpChain(method, CallerRequestId, tooLarge, nextId,
                               tokens, limLast, clock)
                me == [pc |-> IF c.metrics THEN "inside" ELSE "done",
                       method |-> method, req |-> req, sendOk |-> sendOk,
                       code |-> c.code]
            IN  /\ metrics' = [metrics EXCEPT
                                 !.active = IF c.metrics THEN @ + 1 ELSE @,
                                 !.reqs[r] = me]
                /\ tokens' = c.tokens
                /\ limLast' = c.last
    /\ UNCHANGED <<log, nextId, clock, calls, syncVars, streamVars, mu, callers, edge,
                   md, conv, life, sessions>>

\* c.Next() of Metrics returns: the route handler ran unless RequestSizeLimit
\* aborted; the counter is incremented and the deferred Dec runs
HttpComplete(r) ==
    /\ metrics.reqs[r].pc = "inside"
    /\ LET me == metrics.reqs[r]
           o == IF me.code = "next"
                THEN HttpIngestEvent(TRUE, me.req, me.sendOk, log, nextId, clock)
                ELSE [NotServed EXCEPT !.calls = calls] @@ [resp |-> [code |-> me.code]]
       IN  /\ log' = o.log
           /\ nextId' = nextId + o.drawn
           /\ calls' = o.calls
           /\ metrics' = [metrics EXCEPT
                            !.requests_total = @ + 1,
                            !.active = @ - 1,
                            !.reqs[r] = [me EXCEPT !.pc = "done",
                                                   !.code = o.resp.code]]
    /\ UNCHANGED <<clock, syncVars, streamVars, gateVars, md, conv, life, sessions>>

NextMetrics ==
    \/ Tick
    \/ \E r \in HttpReqIds : HttpReceive(r)
    \/ \E r \in HttpReqIds : HttpComplete(r)

SpecMetrics == Init /\ [][NextMetrics]_vars

(***************************************************************************)
(* The life of the process (main).  The producer is created first and its  *)
(* Close is deferred; the HTTP server and the gRPC server run in their own *)
(* goroutines and share the producer.  After a signal, or an error of the  *)
(* gRPC goroutine, main calls httpServer.Shutdown with a context of 30     *)
(* seconds, then grpcSrv.Stop, and returns: the deferred Close runs and    *)
(* the process exits.  A handler in flight is a request that was accepted  *)
(* and has not called ProduceEvent yet.                                    *)
(***************************************************************************)
ShutdownRequest == EventRequest("a", "s", "d")

ShutdownEvent == PbEvent(FALSE, EmptyId, "b", "s", "d", NilTime)

LifeStep(l, o, cost) ==
    /\ life' = l
    /\ log' = o.log
    /\ nextId' = nextId + o.drawn
    /\ calls' = o.calls
    /\ submitted' = submitted + cost
    /\ UNCHANGED <<clock, last, streamVars, gateVars, md, conv, metrics, sessions>>

\* Server.Start in its goroutine: s.server = grpc.NewServer(...), Serve
GrpcServe ==
    /\ life.main # "exited"
    /\ life.grpc = "starting"
    /\ LifeStep([life EXCEPT !.grpc = "up"], NotServed, 0)

\* Server.Start returns an error: main leaves its select by grpcErrChan
GrpcStartError ==
    /\ life.main = "serving"
    /\ life.grpc = "starting"
    /\ LifeStep([life EXCEPT !.grpc = "failed", !.main = "http_shutdown",
                             !.http = "stopped"], NotServed, 0)

\* the HTTP server accepts a request: its handler is in flight
HttpAccept ==
    /\ life.main # "exited"
    /\ life.http = "up"
    /\ Arrives(MaxInflight)
    /\ LifeStep([life EXCEPT !.httpInflight = @ + 1], NotServed, 1)

\* a handler in flight calls ProduceEvent and answers; a send on a closed
\* producer delivers nothing
HttpFinish ==
    /\ life.main # "exited"
    /\ life.httpInflight > 0
    /\ LifeStep([life EXCEPT !.httpInflight = @ - 1,
                             !.usedClosed = @ \/ life.producer = "closed"],
                HttpIngestEvent(TRUE, ShutdownRequest, life.producer = "open",
                                log, nextId, clock),
                0)

\* the gRPC server accepts a call or a session
GrpcAccept ==
    /\ life.main # "exited"
    /\ life.grpc = "up"
    /\ Arrives(MaxInflight)
    /\ LifeStep([life EXCEPT !.grpcInflight = @ + 1], NotServed, 1)

GrpcFinish ==
    /\ life.main # "exited"
    /\ life.grpcInflight > 0
    /\ LifeStep([life EXCEPT !.grpcInflight = @ - 1,
                             !.usedClosed = @ \/ life.producer = "closed"],
                GrpcIngestEvent(ShutdownEvent, FALSE, life.producer = "open",
                                log, nextId, clock),
                0)

\* <-quit: httpServer.Shutdown closes the listener at once
Signal ==
    /\ life.main = "serving"
    /\ LifeStep([life EXCEPT !.main = "http_shutdown", !.http = "stopped"],
                NotServed, 0)

\* Shutdown returns nil: no handler of the HTTP server is in flight
HttpShutdownDone ==
    /\ life.main = "http_shutdown"
    /\ life.httpInflight = 0
    /\ LifeStep([life EXCEPT !.main = "grpc_stop"], NotServed, 0)

\* Shutdown returns the error of its context after 30 seconds: the handlers in
\* flight go on
HttpShutdownTimeout ==
    /\ life.main = "http_shutdown"
    /\ life.httpInflight > 0
    /\ LifeStep([life EXCEPT !.main = "grpc_stop"], NotServed, 0)

\* what Stop can read in s.server, which Start writes in another goroutine
\* without synchronisation
ServerSeen(grpc) == IF grpc = "up" THEN {"nil", "server"} ELSE {"nil"}

\* Server.Stop: nothing when s.server is nil, else GracefulStop, which refuses
\* new calls and blocks until the calls in flight have finished
GrpcStop ==
    /\ life.main = "grpc_stop"
    /\ \E seen \in ServerSeen(life.grpc) :
            IF seen = "nil"
            THEN LifeStep([life EXCEPT !.main = "closing"], NotServed, 0)
            ELSE LifeStep([life EXCEPT !.main = "grpc_draining", !.grpc = "stopped"],
                          NotServed, 0)

GrpcStopDone ==
    /\ life.main = "grpc_draining"
    /\ life.grpcInflight = 0
    /\ LifeStep([life EXCEPT !.main = "closing"], NotServed, 0)

\* main returns: the deferred kafkaProducer.Close()
ProducerClose ==
    /\ life.main = "closing"
    /\ LifeStep([life EXCEPT !.main = "closed", !.producer = "closed"], NotServed, 0)

\* the process ends, and its goroutines with it
Exit ==
    /\ life.main = "closed"
    /\ LifeStep([life EXCEPT !.main = "exited"], NotServed, 0)

NextShutdown ==
    \/ Tick
    \/ GrpcServe
    \/ GrpcStartError
    \/ HttpAccept
    \/ HttpFinish
    \/ GrpcAccept
    \/ GrpcFinish
    \/ Signal
    \/ HttpShutdownDone
    \/ HttpShutdownTimeout
    \/ GrpcStop
    \/ GrpcStopDone
    \/ ProducerClose
    \/ Exit

\* main and the handlers run on while they can take a step; a signal and the
\* expiry of the 30 seconds are up to the environment
SpecShutdown ==
    /\ Init
    /\ [][NextShutdown]_vars
    /\ WF_vars(HttpFinish)
    /\ WF_vars(GrpcFinish)
    /\ WF_vars(HttpShutdownDone)
    /\ WF_vars(GrpcStop)
    /\ WF_vars(GrpcStopDone)
    /\ WF_vars(ProducerClose)
    /\ WF_vars(Exit)

(***************************************************************************)
(* Producer.SendBatchEvents called directly, as the tests of the producer  *)
(* call it: on a slice of events, the empty one included.                  *)
(***************************************************************************)
CallSendBatchEvents ==
    \E n \in 0..MaxBatchLen :
        /\ ArrivesBatch(n, MaxSendBatch)
        /\ \E types \in [1..n -> {"a", "b"}], oks \in [1..n -> BOOLEAN] :
            LET events == [k \in 1..n |-> Event(nextId + k - 1, types[k], "s", "d", clock)]
                r == SendBatchEvents(events, oks, log)
            IN  /\ log' = r.log
                /\ calls' = r.calls
                /\ last' = [op |-> "SendBatchEvents", events |-> events, oks |-> oks,
                            err |-> r.err, from |-> Len(log)]
        /\ nextId' = nextId + n
        /\ submitted' = submitted + (IF n = 0 THEN 1 ELSE n)
        /\ UNCHANGED clock
        /\ UNCHANGED <<streamVars, gateVars, md, sideVars>>

NextSendBatch ==
    \/ Tick
    \/ CallSendBatchEvents

SpecSendBatch == Init /\ [][NextSendBatch]_vars

(***************************************************************************)
(* A streaming session, batches and single requests that produce side by   *)
(* side on the one producer.  Every handler calls ProduceEvent             *)
(* synchronously: a session or a batch has at most one send outstanding.   *)
(***************************************************************************)
OrderedEvents ==
    {PbEvent(FALSE, EmptyId, "a", "s", "d", NilTime),
     PbEvent(FALSE, EmptyId, "b", "s", "d", NilTime)}

\* the client of the session sends an event
ClientSendEvent(budget) ==
    /\ Live
    /\ ~clientClosed
    /\ Arrives(budget)
    /\ \E e \in OrderedEvents : inbox' = Append(inbox, InMsg("event", e))
    /\ submitted' = submitted + 1
    /\ UNCHANGED <<log, nextId, clock, calls, last, gateVars, md, sideVars>>
    /\ UNCHANGED <<pc, requestID, clientClosed, ctxCancelled, got, pending, outbox, ret>>

\* EventGateway/IngestEvent of another client
OtherIngestEvent(budget) ==
    /\ Arrives(budget)
    /\ \E event \in OrderedEvents, sendOk \in BOOLEAN :
            Apply("grpc.IngestEvent", event, FALSE,
                  GrpcIngestEvent(event, FALSE, sendOk, log, nextId, clock))

\* POST /api/v1/events/batch of another client
OtherHttpIngestBatch(budget) ==
    /\ ArrivesBatch(2, budget)
    /\ \E events \in [1..2 -> OrderedEvents], oks \in [1..2 -> BOOLEAN] :
            LET reqs == [k \in 1..2 |-> ToRequest(events[k])]
            IN  ApplyBatch("http.IngestBatch", reqs, 3, oks, FALSE,
                           HttpIngestBatch(TRUE, reqs, oks, log, nextId, clock))

\* EventGateway/IngestEventBatch of another client
OtherGrpcIngestEventBatch(budget) ==
    /\ ArrivesBatch(2, budget)
    /\ \E events \in [1..2 -> OrderedEvents], oks \in [1..2 -> BOOLEAN] :
            ApplyBatch("grpc.IngestEventBatch", events, 3, oks, FALSE,
                       GrpcIngestEventBatch(events, 3, oks, FALSE, log, nextId, clock))

NextOrdered ==
    \/ StreamOpen({EmptyId})
    \/ ClientSendEvent(MaxOrdered)
    \/ ClientCloseSend
    \/ Cancel
    \/ StreamSelect
    \/ StreamRecvMsg
    \/ StreamRecvEOF
    \/ StreamRecvError
    \/ StreamHandle
    \/ StreamSend
    \/ StreamSendError
    \/ OtherIngestEvent(MaxOrdered)
    \/ OtherHttpIngestBatch(MaxOrdered)
    \/ OtherGrpcIngestEventBatch(MaxOrdered)

SpecOrdered == Init /\ [][NextOrdered]_vars

(***************************************************************************)
(* The metadata IngestBatch adds to the event of element i (zero-based).   *)
(* A string is the sequence of its code points.  Go's string(rune(i)) is   *)
(* the string of the one code point i, or of U+FFFD when i is not a valid  *)
(* code point.                                                             *)
(***************************************************************************)
StringOfRune(r) ==
    IF r < 0 \/ r > 1114111 \/ (r >= 55296 /\ r <= 57343) THEN <<65533>> ELSE <<r>>

\* event.Metadata["batch_index"]
BatchIndex(i) == StringOfRune(i)

\* the loop body of IngestBatch for a valid element at position i
TagBatchEvent ==
    /\ Arrives(MaxTagged)
    /\ \E i \in 0..(BatchSizeMax - 1), t \in {"a", "b"} :
            last' = [op |-> "http.IngestBatch.element", index |-> i,
                     event |-> ToEvent(EventRequest(t, "s", "d"), nextId, clock),
                     batch_index |-> BatchIndex(i)]
    /\ nextId' = nextId + 1
    /\ submitted' = submitted + 1
    /\ UNCHANGED <<log, clock, calls, streamVars, gateVars, md, sideVars>>

NextBatchIndex ==
    \/ Tick
    \/ TagBatchEvent

SpecBatchIndex == Init /\ [][NextBatchIndex]_vars

(***************************************************************************)
(* Two streaming sessions side by side.  gRPC runs StreamEvents once per   *)
(* stream, each call in its own goroutine: requestID, ctx and the loop     *)
(* variables are locals of the call; the EventHandler the calls share      *)
(* holds the producer and the logger only.  The client of session s marks  *)
(* the events it identifies itself with an identifier of its own.          *)
(***************************************************************************)
SessionEventId(s) == CallerRequestId - s

SessionMsgs(s) ==
    {InMsg("event", PbEvent(FALSE, SessionEventId(s), "a", "s", "d", CallerTime)),
     InMsg("event", PbEvent(FALSE, EmptyId, "a", "s", "d", NilTime)),
     InMsg("event", PbEvent(FALSE, EmptyId, "a", "", "d", NilTime)),
     InMsg("ping", NilPbEvent)}

\* a requestID kept in a field of the shared handler: the one drawn last
SessionRequestID_OfLatestSession(ss, s) ==
    LET opened == {ss[t].requestID : t \in SessionIds}
    IN  CHOOSE r \in opened : \A q \in opened : q <= r

\* the requestID the StreamEvents call of session s hands to handleStreamEvent
SessionRequestID(ss, s) == ss[s].requestID

SessionStep(s, rec) ==
    /\ sessions' = [sessions EXCEPT ![s] = rec]
    /\ UNCHANGED <<log, nextId, clock, calls, syncVars, streamVars, gateVars, md,
                   conv, metrics, life>>

SessionLive(s) == sessions[s].pc \in {"select", "recv", "handle", "send"}

SessionOpen(s) ==
    /\ sessions[s].pc = "none"
    /\ sessions' = [sessions EXCEPT ![s] = [@ EXCEPT !.pc = "select", !.requestID = nextId]]
    /\ nextId' = nextId + 1
    /\ UNCHANGED <<log, clock, calls, syncVars, streamVars, gateVars, md,
                   conv, metrics, life>>

SessionClientSend(s) ==
    /\ SessionLive(s)
    /\ ~sessions[s].clientClosed
    /\ Arrives(MaxSessionMsgs)
    /\ \E m \in SessionMsgs(s) :
            sessions' = [sessions EXCEPT ![s] = [@ EXCEPT !.inbox = Append(@, m)]]
    /\ submitted' = submitted + 1
    /\ UNCHANGED <<log, nextId, clock, calls, last, streamVars, gateVars, md,
                   conv, metrics, life>>

SessionClientCloseSend(s) ==
    /\ SessionLive(s)
    /\ ~sessions[s].clientClosed
    /\ SessionStep(s, [sessions[s] EXCEPT !.clientClosed = TRUE])

\* the select of the loop: the context of these sessions is not done
SessionSelect(s) ==
    /\ sessions[s].pc = "select"
    /\ SessionStep(s, [sessions[s] EXCEPT !.pc = "recv"])

SessionRecvMsg(s) ==
    /\ sessions[s].pc = "recv"
    /\ sessions[s].inbox # <<>>
    /\ LET me == sessions[s]
           m == Head(me.inbox)
           re == Len(me.got) + 1
       IN  SessionStep(s, [me EXCEPT
                !.got = Append(@, m),
                !.inbox = Tail(@),
                !.pc = CASE m.kind = "event" -> "handle"
                         [] m.kind = "ping" -> "send"
                         [] OTHER -> "select",
                !.pending = IF m.kind = "ping" THEN PongMsg(re) ELSE @])

SessionRecvEOF(s) ==
    /\ sessions[s].pc = "recv"
    /\ sessions[s].inbox = <<>>
    /\ sessions[s].clientClosed
    /\ SessionStep(s, [sessions[s] EXCEPT !.pc = RecvReturn("EOF").pc,
                                          !.ret = RecvReturn("EOF").ret])

SessionHandle(s) ==
    /\ sessions[s].pc = "handle"
    /\ \E sendOk \in BOOLEAN :
         LET me == sessions[s]
             re == Len(me.got)
             h == handleStreamEvent(FALSE, SessionRequestID(sessions, s), me.got[re].event,
                                    sendOk, log, nextId, clock, re)
         IN  /\ log' = h.log
             /\ nextId' = nextId + h.drawn
             /\ calls' = h.calls
             /\ sessions' = [sessions EXCEPT ![s] = [me EXCEPT
                    !.pc = "send",
                    !.pending = IF h.err # "" THEN StatusMsg(re, h.err) ELSE h.ack]]
    /\ UNCHANGED <<clock, syncVars, streamVars, gateVars, md, conv, metrics, life>>

SessionSend(s) ==
    /\ sessions[s].pc = "send"
    /\ SessionStep(s, [sessions[s] EXCEPT !.outbox = Append(@, sessions[s].pending),
                                          !.pending = NoMsg,
                                          !.pc = "select"])

NextSessions ==
    \/ \E s \in SessionIds : SessionOpen(s)
    \/ \E s \in SessionIds : SessionClientSend(s)
    \/ \E s \in SessionIds : SessionClientCloseSend(s)
    \/ \E s \in SessionIds : SessionSelect(s)
    \/ \E s \in SessionIds : SessionRecvMsg(s)
    \/ \E s \in SessionIds : SessionRecvEOF(s)
    \/ \E s \in SessionIds : SessionHandle(s)
    \/ \E s \in SessionIds : SessionSend(s)

SpecSessions == Init /\ [][NextSessions]_vars

(***************************************************************************)
(* The RequestId field of a per-element result of IngestEventBatch: each   *)
(* of the three places that build a result sets it to the requestID of the *)
(* call, which is also the RequestId of the batch response.                *)
(***************************************************************************)
\* results that carry a request id only when the element was accepted
ResultRequestId_AcceptedOnly(result, rid) ==
    IF result.status = "ACCEPTED" THEN rid ELSE EmptyId

ResultRequestId(result, rid) ==
    CASE result.status = "REJECTED" -> rid
      [] result.status = "FAILED" -> rid
      [] OTHER -> rid

(***************************************************************************)
(* Properties of the request/response handlers.                            *)
(***************************************************************************)
IngestOneOps == {"http.IngestEvent", "grpc.IngestEvent"}
DryRunOps == {"http.ValidateEvent", "grpc.ValidateEvent"}
GrpcOps == {"grpc.IngestEvent", "grpc.ValidateEvent"}

\* the records the latest exchange added to the log
ProducedByLast == SubSeq(log, last.from + 1, Len(log))

\* the request of the latest single-event exchange misses a required field
LacksRequiredField(x) ==
    \/ x.op \in GrpcOps /\ x.req.isNil
    \/ x.req.type = ""
    \/ x.req.source = ""
    \/ x.req.data = NilData

ReportsValidationFailure(resp) ==
    resp.error = "validation_failed" \/ resp.code = "InvalidArgument"

ReportsAccepted(resp) == resp.status \in {"accepted", "ACCEPTED"}

(***************************************************************************)
(* C1.  An ingest-one request, on the HTTP or the gRPC adapter, that fails *)
(* validation adds no record to the log; one that is answered as accepted  *)
(* added exactly one record, the record of its event.                      *)
(***************************************************************************)
IngestOneRecordCount ==
    last.op \in IngestOneOps =>
        /\ (LacksRequiredField(last) \/ ReportsValidationFailure(last.resp))
                => ProducedByLast = <<>>
        /\ ReportsAccepted(last.resp)
                => /\ Len(ProducedByLast) = 1
                   /\ ProducedByLast[1].headers.event_id = last.resp.event_id
                   /\ ProducedByLast[1].key = last.req.type

\* an accepted gRPC ingest after an earlier record, and its one new record
IngestOneAcceptedSeen ==
    /\ last.op = "grpc.IngestEvent"
    /\ ReportsAccepted(last.resp)
    /\ last.from = 1
    /\ Len(log) = 2

(***************************************************************************)
(* C2.  A dry-run validation, HTTP or gRPC, valid input or not, makes no   *)
(* ProduceEvent call and leaves the log as it was.                         *)
(***************************************************************************)
DryRunLeavesLog ==
    [][last'.op \in DryRunOps => (log' = log /\ calls' = <<>>)]_vars

\* a dry run that found its input valid, with a record already in the log
DryRunValidSeen ==
    /\ last.op = "http.ValidateEvent"
    /\ last.resp.status = "valid"
    /\ Len(log) = 1

(***************************************************************************)
(* C3.  Every event handed to ProduceEvent, by the single and the batch    *)
(* handlers of both adapters and by the stream handler, has a type, a      *)
(* source, a payload that is not nil, an identifier and a timestamp.       *)
(***************************************************************************)
ProducedEventsComplete ==
    \A k \in 1..Len(calls) :
        /\ calls[k].event.type # ""
        /\ calls[k].event.source # ""
        /\ calls[k].event.data # NilData
        /\ calls[k].event.id # EmptyId
        /\ calls[k].event.ts # NilTime

\* a stream event that came without an id was just produced under a drawn id
ProducedEventSeen ==
    /\ pc = "send"
    /\ pending.kind = "ack"
    /\ got[Len(got)].event.id = EmptyId
    /\ Len(calls) = 1
    /\ calls[1].event.id = pending.event_id
    /\ calls[1].event.id = requestID + 1

(***************************************************************************)
(* Properties of the batch handlers.                                       *)
(***************************************************************************)
BatchOps == {"http.IngestBatch", "grpc.IngestEventBatch"}

N == Len(last.req)

\* element i of the latest batch misses a required field
ElementLacksField(i) ==
    \/ last.op = "grpc.IngestEventBatch" /\ last.req[i].isNil
    \/ last.req[i].type = ""
    \/ last.req[i].source = ""
    \/ last.req[i].data = NilData

AcceptedStatus(r) == r.status \in {"accepted", "ACCEPTED"}

\* entries 1..k of the result list are about elements 1..k
EntriesInInputOrder ==
    \A i \in 1..Len(last.resp.results) :
        /\ last.resp.results[i].elem = i
        /\ ElementLacksField(i) <=> last.resp.results[i].status \in {"failed", "REJECTED"}

\* the context of the latest batch is never done, and every send is acknowledged
NoCancel == last.cancelAt = N + 1
AllSendsOk == \A i \in 1..N : last.oks[i]

BatchInvalidElementIsolated ==
    ( /\ last.op \in BatchOps
      /\ N = 3
      /\ ~ElementLacksField(1) /\ ~ElementLacksField(3)
      /\ last.req[2].source = "" /\ last.req[2].type # "" /\ last.req[2].data # NilData
      /\ AllSendsOk /\ NoCancel )
    => /\ last.resp.hasResults
       /\ last.resp.success = 2
       /\ last.resp.failure = 1
       /\ Len(last.resp.results) = 3
       /\ Len(ProducedByLast) = 2

(***************************************************************************)
(* C6 as stated.  In a batch of valid elements without fail_fast, a failed *)
(* send of an element that is not the last does not stop the batch: every  *)
(* element is handed to the producer and gets its own entry in the result. *)
(***************************************************************************)
BatchSendFailureIsolated ==
    ( /\ last.op \in BatchOps
      /\ \E i \in 1..(N - 1) : ~last.oks[i]
      /\ \A i \in 1..N : ~ElementLacksField(i)
      /\ ~last.failFast
      /\ NoCancel )
    => /\ Len(calls) = N
       /\ last.resp.hasResults
       /\ Len(last.resp.results) = N

(***************************************************************************)
(* C7 as stated.  What the HTTP batch endpoint did with a batch is what    *)
(* the gRPC batch endpoint does with the same elements, the same send      *)
(* outcomes and either fail_fast setting, from the same log: the same      *)
(* records in the same order and the same accepted/failed flag per         *)
(* element.                                                                *)
(***************************************************************************)
RecordKeys(recs) ==
    [i \in 1..Len(recs) |-> [key |-> recs[i].key, source |-> recs[i].headers.source]]

AcceptedFlags(resp) ==
    [i \in 1..Len(resp.results) |-> AcceptedStatus(resp.results[i])]

BatchEndpointsAgree ==
    (last.op = "http.IngestBatch" /\ N >= 1) =>
        \A failFast \in BOOLEAN :
            LET before == SubSeq(log, 1, last.from)
                g == GrpcIngestEventBatch([i \in 1..N |-> FromRequest(last.req[i])],
                                          N + 1, last.oks, failFast,
                                          before, nextId, clock)
            IN  /\ RecordKeys(SubSeq(g.log, last.from + 1, Len(g.log)))
                        = RecordKeys(ProducedByLast)
                /\ AcceptedFlags(g.resp) = AcceptedFlags(last.resp)

(***************************************************************************)
(* Properties of the streaming session.                                    *)
(***************************************************************************)
\* the received message at position n calls for an outbound message
NeedsAnswer(n) == got[n].kind \in {"event", "ping"}

\* an outbound message for the received message at position n has been sent
Answered(n) == \E k \in 1..Len(outbox) : outbox[k].re = n

IsPrefix(s, t) == Len(s) <= Len(t) /\ SubSeq(t, 1, Len(s)) = s

(***************************************************************************)
(* C8.  Outbound messages leave in the order their inbound messages were   *)
(* received; before a message is received, every earlier event of the      *)
(* session has its acknowledgment or error status sent (or the handler has *)
(* returned); at most one received message is unanswered at any time, the  *)
(* one being processed.                                                    *)
(***************************************************************************)
StreamResponsesInOrder ==
    /\ \A i, j \in 1..Len(outbox) : i < j => outbox[i].re < outbox[j].re
    /\ \A k \in 1..Len(outbox) :
            /\ outbox[k].re \in 1..Len(got)
            /\ outbox[k].kind = "pong" <=> got[outbox[k].re].kind = "ping"
            /\ outbox[k].kind \in {"ack", "status"} <=> got[outbox[k].re].kind = "event"
    /\ \A n \in 1..(Len(got) - 1) : NeedsAnswer(n) => Answered(n)
    /\ \A n \in 1..Len(got) :
            (NeedsAnswer(n) /\ ~Answered(n)) =>
                \/ n = Len(got) /\ pc \in {"handle", "send"}
                \/ n = Len(got) /\ pc = "closed" /\ ret = "send_error"

\* event, ping, event received; acknowledgment, pong, error status sent
StreamThreeAnswersSeen ==
    /\ Len(outbox) = 3
    /\ outbox[1].kind = "ack"
    /\ outbox[2].kind = "pong"
    /\ outbox[3].kind = "status"

(***************************************************************************)
(* C9.  An event that fails validation or production does not end the     *)
(* session: the step that handles it goes on to send, a delivered error    *)
(* status leads back to the top of the loop, and the handler returns only  *)
(* on end-of-stream, cancellation, or a failed Recv or Send.               *)
(***************************************************************************)
StreamSurvivesEventFailure ==
    /\ [](pc = "closed" => ret \in {"eof", "canceled", "recv_error", "send_error"})
    /\ [][pc = "handle" => pc' \in {"handle", "send"}]_vars
    /\ [][(pc = "send" /\ pending.kind = "status" /\ outbox' = Append(outbox, pending))
            => pc' = "select"]_vars

\* an error status followed, in the same session, by an acknowledgment
StreamAckAfterStatusSeen ==
    /\ Len(outbox) >= 2
    /\ outbox[1].kind = "status"
    /\ outbox[2].kind = "ack"
    /\ Len(log) = 1

(***************************************************************************)
(* C10.  Once the context of the session is done, or the client has        *)
(* half-closed and nothing is left to receive, the handler eventually      *)
(* returns; after it has returned, no ProduceEvent call is made and no     *)
(* message is sent; records in the log stay in the log.                    *)
(***************************************************************************)
StreamTerminates ==
    /\ (Live /\ (ctxCancelled \/ (clientClosed /\ inbox = <<>>))) ~> (pc = "closed")
    /\ [][pc = "closed" =>
            (pc' = "closed" /\ log' = log /\ outbox' = outbox /\ calls' = calls)]_vars
    /\ [][IsPrefix(log, log')]_vars

\* the handler returned on cancellation with a record produced and a message unread
StreamCancelledSeen ==
    /\ pc = "closed"
    /\ ret = "canceled"
    /\ Len(log) >= 1
    /\ inbox # <<>>

(***************************************************************************)
(* Properties of the admission controller.                                 *)
(***************************************************************************)
Decided == {r \in ReqIds : callers[r].pc = "done"}
Admitted == {r \in Decided : callers[r].ok}

Min(a, b) == IF a < b THEN a ELSE b

\* every request decided so far read the time at which the bucket was full
SameInstant == \A r \in Decided : callers[r].t = 1

HttpRoutes == {"http.IngestEvent", "http.ValidateEvent", "http.IngestBatch"}
GrpcMethods == {"grpc.IngestEvent", "grpc.ValidateEvent", "grpc.IngestEventBatch"}

(***************************************************************************)
(* C12.  An HTTP request that finds no token is answered 429 in the step   *)
(* that serves it: the route handler is not run, so neither the validator  *)
(* nor the producer is called, the log has the records it had before, and  *)
(* the bucket is left as it was.  Only such a request is answered 429.     *)
(***************************************************************************)
RateLimitedNeverServed ==
    /\ (edge.op \in HttpRoutes /\ ~edge.took) =>
            /\ edge.code = "429"
            /\ ~edge.admitted
            /\ calls = <<>>
            /\ Len(log) = edge.from
    /\ edge.code = "429" => (edge.op \in HttpRoutes /\ ~edge.took)

\* an ingest answered 429 after an earlier one spent the token and produced
RateLimitedSeen ==
    /\ edge.op = "http.IngestEvent"
    /\ edge.code = "429"
    /\ tokens = 0
    /\ Len(log) = 1

(***************************************************************************)
(* C13 as stated.  Every synchronous request whose handler ran, over HTTP  *)
(* or as a gRPC unary call, took one token of the admission controller     *)
(* before the handler ran.                                                 *)
(***************************************************************************)
SyncRequestTakesToken ==
    (edge.op \in HttpRoutes \cup GrpcMethods /\ edge.admitted) => edge.took

(***************************************************************************)
(* Properties of the producer.                                             *)
(***************************************************************************)
RECURSIVE SentCount(_)
SentCount(cs) ==
    IF cs = <<>> THEN 0
    ELSE (IF Head(cs).sent THEN 1 ELSE 0) + SentCount(Tail(cs))

AllCancelled(cs) == cs # <<>> /\ \A k \in DOMAIN cs : cs[k].ctxDone

(***************************************************************************)
(* C14.  A ProduceEvent call whose context is already done returns the     *)
(* cancellation error without calling SendMessage; a handler step whose    *)
(* ProduceEvent calls were all made under a done context adds no record to *)
(* the log, and no step adds more records than it made sends.              *)
(***************************************************************************)
CancelledProduceSendsNothing ==
    /\ [](\A k \in DOMAIN calls :
            calls[k].ctxDone => (calls[k].err = "canceled" /\ ~calls[k].sent))
    /\ [][AllCancelled(calls') => log' = log]_vars
    /\ [][log' # log => Len(log') - Len(log) <= SentCount(calls')]_vars

\* a gRPC ingest of a valid event under a done context: one call, nothing sent
CancelledProduceSeen ==
    /\ last.op = "grpc.IngestEvent"
    /\ last.passed
    /\ Len(calls) = 1
    /\ calls[1].ctxDone
    /\ calls[1].err = "canceled"
    /\ log = <<>>

(***************************************************************************)
(* C15 as stated.  On every ingest operation, an event whose produce step  *)
(* begins after the caller's context is done is not sent: a request of     *)
(* either server that arrives with a done context, and a stream event      *)
(* handled after the context of the session is done, make no SendMessage   *)
(* call.                                                                   *)
(***************************************************************************)
NoSendAfterCancel ==
    /\ [][(edge' # edge /\ edge'.ctxDone) =>
            \A k \in DOMAIN calls' : ~calls'[k].sent]_vars
    /\ [][(pc = "handle" /\ pc' # pc /\ ctxCancelled) =>
            (log' = log /\ \A k \in DOMAIN calls' : ~calls'[k].sent)]_vars

(***************************************************************************)
(* What each gRPC path reports for an event whose send the broker refuses. *)
(***************************************************************************)
BrokerFailureAnswer(event) == GrpcIngestEvent(event, FALSE, FALSE, <<>>, 1, 1).resp

BrokerFailureResult(event) ==
    GrpcIngestEventBatch(<<event>>, 2, <<FALSE>>, FALSE, <<>>, 1, 1).resp.results[1]

BrokerFailureStatus(event) ==
    handleStreamEvent(FALSE, requestID, event, FALSE, <<>>, 1, 1, 1).err

(***************************************************************************)
(* C16 as stated.  When ProduceEvent fails because the context is done,    *)
(* what the caller is told differs from what it is told when the broker    *)
(* refuses the same event: the status of IngestEvent, the status and error *)
(* of the element's result in IngestEventBatch, the text of the status     *)
(* message on the stream.  After a call that returned the cancellation     *)
(* error the request sends nothing more.                                   *)
(***************************************************************************)
CancellationDistinguished ==
    /\ (last.op = "grpc.IngestEvent" /\ Len(calls) = 1 /\ calls[1].err = "canceled")
            => last.resp # BrokerFailureAnswer(last.req)
    /\ (last.op = "grpc.IngestEventBatch" /\ last.resp.hasResults) =>
            \A k \in DOMAIN last.resp.results :
                LET r == last.resp.results[k]
                IN  (r.elem >= last.cancelAt /\ r.status # "REJECTED") =>
                        <<r.status, r.error>> #
                            <<BrokerFailureResult(last.req[r.elem]).status,
                              BrokerFailureResult(last.req[r.elem]).error>>
    /\ (pc = "send" /\ pending.kind = "status"
            /\ Len(calls) = 1 /\ calls[1].err = "canceled"
            /\ validateEvent(got[Len(got)].event) = "ok")
            => pending.message # BrokerFailureStatus(got[Len(got)].event)
    /\ \A k \in DOMAIN calls :
            calls[k].err = "canceled" =>
                \A j \in DOMAIN calls : j > k => ~calls[j].sent

(***************************************************************************)
(* C17 as stated.  A successful ingest of one event, over HTTP or gRPC,    *)
(* answers with status accepted and with the partition and the offset of   *)
(* the record the log stored for exactly that event.                       *)
(***************************************************************************)
IngestOneReturnsPlacement ==
    (last.op \in IngestOneOps /\ last.resp.code \in {"202", "OK"}) =>
        /\ last.resp.status \in {"accepted", "ACCEPTED"}
        /\ Len(ProducedByLast) = 1
        /\ ProducedByLast[1].value.id = last.resp.event_id
        /\ last.resp.placed
        /\ last.resp.partition = ProducedByLast[1].partition
        /\ last.resp.offset = ProducedByLast[1].offset

RecordCarriesRequestId ==
    \A k \in DOMAIN log :
        /\ "request_id" \in DOMAIN log[k].headers
        /\ log[k].headers.request_id # EmptyId
        /\ (pc = "none" /\ edge.op # "none" /\ k > edge.from) =>
                log[k].headers.request_id = edge.request_id

(***************************************************************************)
(* C20 as stated.  Every response of a server carries a request            *)
(* identifier: the one the caller supplied when it supplied one, a         *)
(* generated one otherwise, on refusals and validation errors too.  The    *)
(* identifier of a streaming session is the x-request-id of its metadata   *)
(* when the client set one, and every message the session sends carries    *)
(* it.                                                                     *)
(***************************************************************************)
EveryResponseCarriesRequestId ==
    /\ edge.op # "none" =>
            /\ edge.request_id # EmptyId
            /\ edge.supplied # EmptyId => edge.request_id = edge.supplied
    /\ (pc # "none" /\ md # EmptyId) => requestID = md
    /\ \A k \in DOMAIN outbox : outbox[k].request_id = requestID

(***************************************************************************)
(* C21 as stated.  In a session that has received k valid events and then  *)
(* a ping, every event produced and every answer sent, the messages sent   *)
(* are the k acknowledgments in the order of the events and then one pong, *)
(* and each of them, the pong too, carries the identifier of the session.  *)
(***************************************************************************)
StreamAcksThenPong ==
    LET n == Len(got)
    IN  ( /\ n >= 2
          /\ got[n].kind = "ping"
          /\ \A i \in 1..(n - 1) :
                got[i].kind = "event" /\ validateEvent(got[i].event) = "ok"
          /\ Len(log) = n - 1
          /\ Len(outbox) = n )
        => /\ \A i \in 1..(n - 1) : outbox[i].kind = "ack" /\ outbox[i].re = i
           /\ outbox[n].kind = "pong"
           /\ \A i \in 1..n : outbox[i].request_id = requestID

(***************************************************************************)
(* C22 as stated.  A batch that is empty or has more than BatchSizeMax     *)
(* elements is refused as a whole by either batch endpoint: the answer is  *)
(* an error with no result list and the log is as it was.                  *)
(***************************************************************************)
BatchSizeEnforced ==
    (last.op \in {"http.IngestBatch", "grpc.IngestEventBatch"}
        /\ (Len(last.req) = 0 \/ Len(last.req) > BatchSizeMax))
    => /\ ~last.resp.hasResults
       /\ last.resp.code \in {"400", "InvalidArgument"}
       /\ Len(log) = last.from

(***************************************************************************)
(* C23 as stated.  The HTTP batch endpoint answers 202 exactly when every  *)
(* element of the batch was accepted and produced, and 207 when an element *)
(* failed and another one was accepted: a batch with an element that lacks *)
(* a required field and a valid element whose send is acknowledged is      *)
(* answered 207.                                                           *)
(***************************************************************************)
HttpBatchMultiStatus ==
    (last.op = "http.IngestBatch" /\ N >= 1) =>
        /\ last.resp.code = "202" <=>
                (\A i \in 1..N : ~ElementLacksField(i) /\ last.oks[i])
        /\ last.resp.code = "202" => Len(ProducedByLast) = N
        /\ ( /\ \E i \in 1..N : ElementLacksField(i)
             /\ \E i \in 1..N : ~ElementLacksField(i) /\ last.oks[i] )
           => last.resp.code = "207"

(***************************************************************************)
(* The required-field rules a request violates, and the rules the answer   *)
(* of a dry run names.  The HTTP answer names validator fields; the gRPC   *)
(* answer has entries for type and source, and an entry "event" with the   *)
(* message of validateEvent.                                               *)
(***************************************************************************)
ViolatedRules(req) ==
    (IF req.type = "" THEN {"type"} ELSE {})
    \cup (IF req.source = "" THEN {"source"} ELSE {})
    \cup (IF req.data = NilData THEN {"data"} ELSE {})

FieldRule(field) ==
    CASE field = "Type" -> "type"
      [] field = "Source" -> "source"
      [] field = "Data" -> "data"
      [] OTHER -> field

NamedRules(x) ==
    LET named == {FieldRule(x.resp.details[i]) : i \in DOMAIN x.resp.details}
    IN  (named \cap {"type", "source", "data"})
        \cup (IF x.op = "grpc.ValidateEvent" /\ "event" \in named
                 /\ validateEvent(x.req) = "event data is required"
              THEN {"data"} ELSE {})

\* the request of the exchange was decoded and is not nil
Decoded(x) ==
    /\ x.resp.error # "invalid_json"
    /\ x.op \in GrpcOps => ~x.req.isNil

(***************************************************************************)
(* C24 as stated.  The answer of a dry run names every required-field rule *)
(* the input violates, whatever subset that is; the answer of an ingest    *)
(* names one violation only, the first.                                    *)
(***************************************************************************)
DryRunNamesEveryViolation ==
    /\ (last.op \in DryRunOps /\ Decoded(last)) =>
            ViolatedRules(last.req) \subseteq NamedRules(last)
    /\ (last.op \in IngestOneOps /\ Decoded(last)) =>
            Len(last.resp.details) <= 1

\* an attempt the client may send again
Transient == {"leader_only", "not_leader"}

HealthReflectsProducer ==
    LET p == edge.producer
        r == edge.report
        live == p # "nil" /\ IsHealthy(p)
    IN  /\ r.op = "http.Ready" =>
                /\ (r.code = "200" /\ r.status = "ready") <=> live
                /\ (r.code = "503" /\ r.status = "not_ready") <=> ~live
        /\ (r.op = "http.DetailedHealth" /\ p = "nil") =>
                (r.status = "degraded" /\ r.kafka = "unavailable")
        /\ (r.op = "grpc.HealthCheck" /\ r.kafka = "UP") => p # "nil"

\* the positions of the received messages that are not config messages, in order
RECURSIVE Answerable(_, _)
Answerable(msgs, i) ==
    IF i > Len(msgs) THEN <<>>
    ELSE (IF msgs[i].kind = "config" THEN <<>> ELSE <<i>>) \o Answerable(msgs, i + 1)

(***************************************************************************)
(* C27.  Receiving a config message changes nothing but the position of    *)
(* the handler, which goes back to the top of its loop: no record, no      *)
(* ProduceEvent call, no message to send, the session stays open.  The     *)
(* messages the session has sent answer its events and pings, in order,    *)
(* one each, as if the config messages were not there.                     *)
(***************************************************************************)
ConfigChangesNothing ==
    /\ [][(pc = "recv" /\ got' # got /\ got'[Len(got')].kind = "config") =>
            /\ pc' = "select"
            /\ log' = log /\ calls' = calls /\ nextId' = nextId
            /\ outbox' = outbox /\ pending' = pending /\ ret' = ret
            /\ requestID' = requestID /\ ctxCancelled' = ctxCancelled
            /\ tokens' = tokens]_vars
    /\ [](LET a == Answerable(got, 1)
          IN  /\ Len(outbox) <= Len(a)
              /\ \A j \in DOMAIN outbox :
                    /\ outbox[j].re = a[j]
                    /\ got[a[j]].kind = "ping" <=> outbox[j].kind = "pong"
                    /\ got[a[j]].kind = "event" <=> outbox[j].kind \in {"ack", "status"})

\* an event, a config message and an event received; both events acknowledged
ConfigBetweenEventsSeen ==
    /\ Len(got) = 3
    /\ got[1].kind = "event" /\ got[2].kind = "config" /\ got[3].kind = "event"
    /\ Len(outbox) = 2
    /\ outbox[1].kind = "ack" /\ outbox[2].kind = "ack"
    /\ outbox[2].re = 3
    /\ Len(log) = 2
    /\ Live

Converted == {c \in ConvIds : conv[c].pc = "done"}

(***************************************************************************)
(* C28.  Any two conversions that have returned, of the same request or of *)
(* different ones, in whatever order their steps interleaved, built events *)
(* with different identifiers; each event has the fields of its request.   *)
(***************************************************************************)
ToEventIdsDistinct ==
    /\ \A c, d \in Converted : c # d => conv[c].event.id # conv[d].event.id
    /\ \A c \in Converted :
            /\ conv[c].event.id # EmptyId
            /\ conv[c].event.type = conv[c].req.type
            /\ conv[c].event.source = conv[c].req.source
            /\ conv[c].event.data = conv[c].req.data

\* two conversions of the same request, the second one called before the
\* first one returned and returning first
ToEventConcurrentSeen ==
    /\ Converted = {1, 2}
    /\ conv[1].req = conv[2].req
    /\ conv[1].event.id < conv[2].event.id
    /\ conv[1].event.ts > conv[2].event.ts

HttpAnswered == {r \in HttpReqIds : metrics.reqs[r].pc = "done"}

HttpInside == {r \in HttpReqIds : metrics.reqs[r].pc = "inside"}

(***************************************************************************)
(* C29.  http_requests_total counts every HTTP request that was answered,  *)
(* whatever the answer, exactly once, and http_active_connections counts   *)
(* the requests being served: each answered request has given back its     *)
(* increment.                                                              *)
(***************************************************************************)
EveryHttpRequestCounted ==
    /\ metrics.requests_total = Cardinality(HttpAnswered)
    /\ metrics.active = Cardinality(HttpInside)

Drained ==
    /\ life.http = "stopped"
    /\ life.grpc \in {"stopped", "failed"}
    /\ life.httpInflight = 0
    /\ life.grpcInflight = 0

(***************************************************************************)
(* C30.  The producer is closed only when both servers have stopped and no *)
(* request or session is in flight, no handler calls the producer after    *)
(* its Close, and a shutdown that has begun ends with the exit of the      *)
(* process.                                                                *)
(***************************************************************************)
ShutdownDrainsBeforeClose ==
    /\ [](life.producer = "closed" /\ life.main # "exited" => Drained)
    /\ [](~life.usedClosed)
    /\ ((life.main # "serving") ~> (life.main = "exited"))

\* the position of the first event of the latest SendBatchEvents call whose
\* send is not acknowledged, or one past the last event
FirstFailure ==
    LET n == Len(last.events)
        bad == {k \in 1..n : ~last.oks[k]}
    IN  IF bad = {} THEN n + 1 ELSE CHOOSE k \in bad : \A j \in bad : k <= j

(***************************************************************************)
(* C31.  SendBatchEvents sends its events in slice order: it attempts the  *)
(* events up to and including the first one whose send fails and no later  *)
(* one, returns that failure, and leaves the records of the earlier events *)
(* in the log, in order.  Without a failure it sends them all and returns  *)
(* no error; on an empty slice it sends nothing and returns no error.      *)
(***************************************************************************)
SendBatchStopsAtFirstFailure ==
    last.op = "SendBatchEvents" =>
        LET n == Len(last.events)
            f == FirstFailure
            attempted == IF f <= n THEN f ELSE n
            produced == SubSeq(log, last.from + 1, Len(log))
        IN  /\ Len(calls) = attempted
            /\ \A k \in 1..attempted :
                    /\ calls[k].event = last.events[k]
                    /\ calls[k].sent
                    /\ (calls[k].err = "none") = (k < f)
            /\ last.err = (IF f <= n THEN "send_failed" ELSE "none")
            /\ Len(produced) = f - 1
            /\ \A k \in 1..(f - 1) : produced[k].value = last.events[k]
            /\ (n = 0 => calls = <<>> /\ log = SubSeq(log, 1, last.from) /\ last.err = "none")

\* three events whose second send fails: one record, two attempts
SendBatchPartialFailureSeen ==
    /\ last.op = "SendBatchEvents"
    /\ Len(last.events) = 3
    /\ FirstFailure = 2
    /\ last.oks[3]
    /\ Len(log) = last.from + 1
    /\ last.err = "send_failed"

\* the positions in the log of the records of the event with identifier id
RecordsOf(id) == {i \in 1..Len(log) : log[i].value.id = id}

\* record i lies before record j on the same partition
Precedes(i, j) ==
    /\ i < j
    /\ log[i].partition = log[j].partition
    /\ log[i].offset < log[j].offset

\* the acknowledgments the session has delivered, by position in the outbox
AckPositions == {k \in 1..Len(outbox) : outbox[k].kind = "ack"}

\* the accepted elements of the latest batch answer, by position in its results
AcceptedResults ==
    IF last.op \in {"http.IngestBatch", "grpc.IngestEventBatch"} /\ last.resp.hasResults
    THEN {k \in 1..Len(last.resp.results) :
            last.resp.results[k].status \in {"accepted", "ACCEPTED"}}
    ELSE {}

RECURSIVE Itoa(_)
Itoa(i) == IF i < 10 THEN <<48 + i>> ELSE Itoa(i \div 10) \o <<48 + (i % 10)>>

(***************************************************************************)
(* C33.  The batch_index of the event built for the element at position i  *)
(* of an HTTP batch is the decimal string of i.                            *)
(***************************************************************************)
BatchIndexIsDecimal ==
    last.op = "http.IngestBatch.element" => last.batch_index = Itoa(last.index)

\* the acknowledgments delivered on session s, by position in its outbox
SessionAcks(s) == {k \in 1..Len(sessions[s].outbox) : sessions[s].outbox[k].kind = "ack"}

\* the message the outbound message m of session s answers
AnsweredBy(s, m) == sessions[s].got[m.re]

(***************************************************************************)
(* C34.  An acknowledgment delivered on a session carries the identifier   *)
(* of that session, which no other session has, and answers an event that  *)
(* was received on that session: it names that event's identifier when the *)
(* client gave one, and otherwise a generated identifier that no           *)
(* acknowledgment of another session names; its record holds that event.   *)
(***************************************************************************)
SessionsShareNothing ==
    \A s \in SessionIds : \A k \in SessionAcks(s) :
        LET m == sessions[s].outbox[k]
        IN  /\ m.request_id = sessions[s].requestID
            /\ \A t \in SessionIds \ {s} : m.request_id # sessions[t].requestID
            /\ m.re \in 1..Len(sessions[s].got)
            /\ AnsweredBy(s, m).kind = "event"
            /\ AnsweredBy(s, m).event.id # EmptyId => m.event_id = AnsweredBy(s, m).event.id
            /\ \A t \in SessionIds \ {s} : \A l \in SessionAcks(t) :
                    sessions[t].outbox[l].event_id # m.event_id
            /\ \E i \in RecordsOf(m.event_id) :
                    /\ log[i].value.type = AnsweredBy(s, m).event.type
                    /\ log[i].value.source = AnsweredBy(s, m).event.source
                    /\ log[i].partition = m.partition
                    /\ log[i].offset = m.offset

\* both sessions have delivered an acknowledgment: session 2 was opened first,
\* session 1 produced first, its event identified by its client, the event of
\* session 2 by the handler
SessionsInterleavedSeen ==
    /\ SessionAcks(1) # {}
    /\ SessionAcks(2) # {}
    /\ sessions[1].requestID > sessions[2].requestID
    /\ \E k \in SessionAcks(1), l \in SessionAcks(2) :
            /\ sessions[1].outbox[k].offset < sessions[2].outbox[l].offset
            /\ sessions[1].outbox[k].event_id = SessionEventId(1)
            /\ sessions[2].outbox[l].event_id > 0

\* the results of the latest batch answer that were built for element i
ResultsFor(i) ==
    {k \in 1..Len(last.resp.results) : last.resp.results[k].elem = i}

\* the outbound messages of the session that answer the received message re
AnswersTo(re) == {k \in 1..Len(outbox) : outbox[k].re = re}

(***************************************************************************)
(* C35.  A gRPC request whose event is nil is answered as a validation     *)
(* failure naming "event cannot be nil" and adds no record: IngestEvent    *)
(* answers InvalidArgument, ValidateEvent answers invalid, a batch answers *)
(* with results in which a nil element it reached is rejected, a session   *)
(* answers a nil event with an error status.  None answers Internal.       *)
(***************************************************************************)
NilEventIsValidationFailure ==
    /\ (last.op = "grpc.IngestEvent" /\ last.req.isNil) =>
            /\ last.resp.code = "InvalidArgument"
            /\ last.resp.error = "event cannot be nil"
            /\ Len(log) = last.from
    /\ (last.op = "grpc.ValidateEvent" /\ last.req.isNil) =>
            /\ last.resp.code = "OK"
            /\ last.resp.status = "invalid"
            /\ Len(log) = last.from
    /\ (last.op = "grpc.IngestEventBatch"
            /\ \E i \in 1..Len(last.req) : last.req[i].isNil) =>
            /\ last.resp.code = "OK"
            /\ \A k \in 1..Len(last.resp.results) :
                    last.req[last.resp.results[k].elem].isNil =>
                        /\ last.resp.results[k].status = "REJECTED"
                        /\ last.resp.results[k].error = "event cannot be nil"
    /\ \A k \in 1..Len(outbox) :
            (got[outbox[k].re].kind = "event" /\ got[outbox[k].re].event.isNil) =>
                /\ outbox[k].kind = "status"
                /\ outbox[k].message = "event cannot be nil"

\* the latest exchange of the gRPC server is an IngestEventBatch that was
\* answered with a batch response
BatchAnswered == edge.op = "grpc.IngestEventBatch" /\ last.resp.hasResults

FullyProcessed(n) ==
    \/ n < Len(got)
    \/ n = Len(got) /\ pc \notin {"handle", "send"} /\ ret # "send_error"

ProcessedEventsAndPings ==
    {n \in 1..Len(got) : got[n].kind \in {"event", "ping"} /\ FullyProcessed(n)}

(***************************************************************************)
(* C37.  At every point of a session the messages sent are as many as the  *)
(* event and ping messages fully processed: each step that sends, sends    *)
(* one message, an acknowledgment or error status for an event and a pong  *)
(* for a ping; the log grows only while an event is handled, by one        *)
(* record, so a ping or a config message adds none.                        *)
(***************************************************************************)
StreamOutboundMatchesProcessed ==
    /\ [](Len(outbox) = Cardinality(ProcessedEventsAndPings))
    /\ [][outbox' # outbox =>
            /\ pc = "send"
            /\ outbox' = Append(outbox, pending)
            /\ pending.re = Len(got)
            /\ got[Len(got)].kind = "event" => pending.kind \in {"ack", "status"}
            /\ got[Len(got)].kind = "ping" => pending.kind = "pong"
            /\ got[Len(got)].kind # "config"]_vars
    /\ [][log' # log =>
            /\ pc = "handle"
            /\ got[Len(got)].kind = "event"
            /\ Len(log') = Len(log) + 1]_vars

\* an event, a ping and a config message processed: two messages sent, one record
StreamCountsSeen ==
    /\ Len(got) = 3
    /\ {got[n].kind : n \in 1..3} = {"event", "ping", "config"}
    /\ pc = "recv"
    /\ Len(outbox) = 2
    /\ Len(log) = 1

\* the verdict of a dry run
SaysValid(resp) == resp.status = "valid"

(***************************************************************************)
(* C38.  On each adapter the dry run and the ingest handler judge an event *)
(* alike: ValidateEvent answers valid exactly when IngestEvent, given the  *)
(* same event, passes its validation and goes on to the producer.          *)
(***************************************************************************)
DryRunAgreesWithIngest ==
    /\ last.op = "grpc.ValidateEvent" =>
            SaysValid(last.resp)
                = GrpcIngestEvent(last.req, FALSE, TRUE, log, nextId, clock).passed
    /\ last.op = "grpc.IngestEvent" =>
            last.passed = SaysValid(GrpcValidateEvent(last.req, log).resp)
    /\ last.op = "http.ValidateEvent" =>
            SaysValid(last.resp)
                = HttpIngestEvent(TRUE, last.req, TRUE, log, nextId, clock).passed
    /\ last.op = "http.IngestEvent" =>
            last.passed
                = SaysValid(HttpValidateEvent(TRUE, last.req, log, nextId, clock).resp)

\* a gRPC dry run of an event that lacks only its data: judged invalid
DryRunOfDatalessEventSeen ==
    /\ last.op = "grpc.ValidateEvent"
    /\ ~last.req.isNil
    /\ last.req.type # ""
    /\ last.req.source # ""
    /\ last.req.data = NilData
    /\ ~SaysValid(last.resp)
    /\ last.resp.code = "OK"

\* the records appended by the batch call last answered
NewRecords == (last.from + 1)..Len(log)

\* the results of that call reported as accepted
ReportedAccepted ==
    {k \in 1..Len(last.resp.results) :
        last.resp.results[k].status \in {"accepted", "ACCEPTED"}}

\* a batch result accounts for the records: as many records as accepted
\* results, identifier by identifier
BatchResultsMatchLog ==
    (last.op \in {"http.IngestBatch", "grpc.IngestEventBatch"} /\ last.resp.hasResults) =>
        /\ Cardinality(NewRecords) = Cardinality(ReportedAccepted)
        /\ \A k \in ReportedAccepted :
              Cardinality({i \in NewRecords :
                              log[i].value.id = last.resp.results[k].event_id})
                = Cardinality({j \in ReportedAccepted :
                                  last.resp.results[j].event_id
                                      = last.resp.results[k].event_id})

\* an ingestion failure of the HTTP batch endpoint leaves no record behind
BatchFailureLeavesNoRecord ==
    (last.op = "http.IngestBatch" /\ last.resp.code = "500") => NewRecords = {}

(***************************************************************************)
(* C39.  What a batch endpoint reports agrees with the log: an element     *)
(* reported as accepted has exactly one record, an element reported as     *)
(* failed or rejected has none, and when the HTTP batch endpoint answers   *)
(* 500 none of the events of that batch has been produced.                 *)
(***************************************************************************)
BatchReportAgreesWithLog ==
    /\ BatchResultsMatchLog
    /\ BatchFailureLeavesNoRecord

====
